---- MODULE Spec2Model ----
(***************************************************************************)
(* ORBIT decision pipeline: the decision gate (backend/core/               *)
(* decision_engine.py), the behavior state machine (backend/core/          *)
(* behavior_fsm.py), the intent proposers (backend/core/ai_brain.py and    *)
(* ai_brain_v2.py), the IPC server (backend/ipc_server.py), the context   *)
(* hub with its monitors (backend/core/context_hub.py, backend/monitors)   *)
(* and the two orchestrator loops (main.py and main_v2.py).                *)
(*                                                                         *)
(* Time is the value time.time() returns, in whole seconds counted from    *)
(* the start of the program.  One handler call reads the clock once: the   *)
(* clock does not advance inside a call.                                   *)
(* Confidence is a rational number; the model stores it in units of        *)
(* 1/1500, in which 0.1, 0.15, 0.2, 0.7 and age/300*0.2 (whole ages) are   *)
(* integers.  For the confidences the model feeds to the gate the float    *)
(* comparison of the code and the exact comparison decide alike.           *)
(***************************************************************************)
EXTENDS Integers, Sequences, FiniteSets, TLC

VARIABLES
    clock,              \* value of time.time()
    last_intent_time,   \* CooldownManager._last_intent_time  (dict kind -> time)
    last_popup_time,    \* CooldownManager._last_popup_time   (Null or time)
    last_dismiss_time,  \* CooldownManager._last_dismiss_time (Null or time)
    popup_history,      \* SpamFilter._popup_history          (list of times)
    intent_history,     \* SpamFilter._intent_history         (dict kind -> list)
    dismiss_count,      \* ConfidenceDecay._dismiss_count     (dict kind -> int)
    last_context,       \* ConfidenceDecay._last_context      (None or context)
    result,             \* DecisionResult the last call returned (NoResult: None)
    approvals,          \* log of the decisions approved since construction
                        \* or the last reset, in call order: time, kind,
                        \* number of dismiss calls before it
    dismissals,         \* log of the times of the handle_user_dismiss calls
    resets,             \* number of reset calls so far
    fsm,                \* BehaviorFSM: current_state, state_entered_at,
                        \* state_data, state_history
    ret,                \* what the last trigger_event / check_timeout returned
    pc,                 \* where the orchestrator is: "new" before its
                        \* constructor ran, "loop" at the top of the main
                        \* loop, "popup" in main.py's sleep while the popup
                        \* shows, "sleep" in the sleep that ends an iteration
    brain,              \* the proposer: mode, AIBrain._fallback_to_dummy,
                        \* OllamaClient.available
    pool,               \* DummyModePool: responses, last_message,
                        \* last_suggest_time, usage_count
    proposed,           \* the Intent generate_intent returned last (None:
                        \* no call yet)
    ipc_running,        \* main_v2: ipc_loop is set and ipc_server.running
    ui_sent,            \* the UI dicts handed to IPCServer.send_ui_update
    frames,             \* log of the user_action frames the IPC server
                        \* handled: the action and the FSM state at that time
    snapshot,           \* the context snapshot the main loop works on in
                        \* its current iteration (None before the first)
    emitted,            \* log of the fallback messages generate_intent
                        \* returned: the message and the time of the call
    called,             \* the layers the main loop called in its current
                        \* iteration: "proposer" (generate_intent), "gate"
                        \* (evaluate)
    hub,                \* ContextHub: _snapshot_count, _error_count, where
                        \* each thread is in get_context_snapshot and the
                        \* values it holds, and the log of the snapshots
                        \* returned (snapshot_count, error path or not)
    ipc,                \* IPCServer: the connected clients, what each
                        \* client received, the log of the broadcasts and
                        \* whether broadcast raised
    decayed,            \* ConfidenceDecay.apply_decay called on its own:
                        \* its arguments, the previous context and the
                        \* dismiss count it found, and the value returned
                        \* (None: no call yet)
    triggered           \* BehaviorFSM.trigger_event called on its own: the
                        \* event and the callbacks the call invoked
                        \* (None: no call yet)

gateVars == <<last_intent_time, last_popup_time, last_dismiss_time,
              popup_history, intent_history, dismiss_count, last_context,
              result, approvals, dismissals, resets>>

fsmVars == <<fsm, ret>>

orchVars == <<pc, brain, pool, proposed, ipc_running, ui_sent, frames,
              snapshot, emitted, called, hub, ipc, decayed, triggered>>

vars == <<clock, gateVars, fsmVars, orchVars>>

----------------------------------------------------------------------------
(* Bounds of the model *)

\* calls happen in the first GateFine seconds after the start and in the
\* first GateLate seconds of each of the GateHours full hours after it
GateFine == 5
GateLate == 2
GateHours == 1
\* largest dismiss count the model lets a kind reach
MaxDismiss == 1
\* number of handle_user_dismiss calls
MaxDismissCalls == 1
\* number of reset calls
MaxResets == 1

(* Constructor parameters of the gate (every one has a default argument   *)
(* and is set by the tests to other values)                                *)
per_intent_cooldown == 3
global_cooldown == 2
dismiss_cooldown == 3
max_popups_per_hour == 2
same_intent_window == 4

(* Program constants *)
HOUR == 3600
SCALE == 1500
CONFIDENCE_THRESHOLD == 1050      \* 0.7
DISMISS_DECAY == 150              \* 0.1 per dismiss
CONTEXT_DECAY == 225              \* 0.15
MAX_TIME_DECAY == 300             \* 0.2
TIME_DECAY_AFTER == 60
Null == 0                         \* None of an Optional[float]; falsy like 0.0
None == <<>>                      \* None of an Optional object; Some(v) otherwise
Some(v) == <<v>>

IntentType == {"suggest_help", "remind", "info", "none"}

----------------------------------------------------------------------------
(* Inputs *)

GateTimes == (1..GateFine)
             \cup {h * HOUR + f : h \in 1..GateHours, f \in 1..GateLate}

\* the kinds the model passes to the gate (the gate treats all kinds alike)
EvalKinds == {"suggest_help", "info"}
\* 0.7, 0.85
Confidences == {1050, 1275}
Ages == {0, 75}
Contexts == {[active_app |-> "Code.exe", is_idle |-> FALSE],
             [active_app |-> "Chrome.exe", is_idle |-> FALSE]}

Intents == [type : EvalKinds, confidence : Confidences]

----------------------------------------------------------------------------
(* Helpers *)

Max(a, b) == IF a >= b THEN a ELSE b
Min(a, b) == IF a <= b THEN a ELSE b

RECURSIVE SeqMax(_)
SeqMax(s) == IF s = <<>> THEN 0 ELSE Max(Head(s), SeqMax(Tail(s)))

DictGet(d, k, default) == IF k \in DOMAIN d THEN d[k] ELSE default

DictSet(d, k, v) == [x \in (DOMAIN d) \cup {k} |-> IF x = k THEN v ELSE d[x]]

EmptyDict == [x \in {} |-> 0]

----------------------------------------------------------------------------
(* CooldownManager *)

\* can_show_intent with a global tier one second too short
can_show_intent_shortglobal(intent_type, now) ==
    IF last_dismiss_time # Null /\ now - last_dismiss_time < dismiss_cooldown
    THEN [ok |-> FALSE, reason |-> "User dismissed recently",
          wait |-> dismiss_cooldown - (now - last_dismiss_time)]
    ELSE IF last_popup_time # Null
            /\ now - last_popup_time < global_cooldown - 1
    THEN [ok |-> FALSE, reason |-> "Global cooldown active",
          wait |-> global_cooldown - (now - last_popup_time)]
    ELSE IF intent_type \in DOMAIN last_intent_time
            /\ now - last_intent_time[intent_type] < per_intent_cooldown
    THEN [ok |-> FALSE, reason |-> "Intent cooldown active",
          wait |-> per_intent_cooldown - (now - last_intent_time[intent_type])]
    ELSE [ok |-> TRUE, reason |-> "Cooldown passed", wait |-> Null]

\* can_show_intent with the per-kind tier keyed by the last popup of any kind
can_show_intent_anykind(intent_type, now) ==
    IF last_dismiss_time # Null /\ now - last_dismiss_time < dismiss_cooldown
    THEN [ok |-> FALSE, reason |-> "User dismissed recently",
          wait |-> dismiss_cooldown - (now - last_dismiss_time)]
    ELSE IF last_popup_time # Null /\ now - last_popup_time < global_cooldown
    THEN [ok |-> FALSE, reason |-> "Global cooldown active",
          wait |-> global_cooldown - (now - last_popup_time)]
    ELSE IF last_popup_time # Null
            /\ now - last_popup_time < per_intent_cooldown
    THEN [ok |-> FALSE, reason |-> "Intent cooldown active",
          wait |-> per_intent_cooldown - (now - last_popup_time)]
    ELSE [ok |-> TRUE, reason |-> "Cooldown passed", wait |-> Null]

\* the tuple (can_show, reason) as a record; wait is the remaining time
\* the reason text carries, int(remaining)
can_show_intent(intent_type, now) ==
    IF last_dismiss_time # Null /\ now - last_dismiss_time < dismiss_cooldown
    THEN [ok |-> FALSE, reason |-> "User dismissed recently",
          wait |-> dismiss_cooldown - (now - last_dismiss_time)]
    ELSE IF last_popup_time # Null /\ now - last_popup_time < global_cooldown
    THEN [ok |-> FALSE, reason |-> "Global cooldown active",
          wait |-> global_cooldown - (now - last_popup_time)]
    ELSE IF intent_type \in DOMAIN last_intent_time
            /\ now - last_intent_time[intent_type] < per_intent_cooldown
    THEN [ok |-> FALSE, reason |-> "Intent cooldown active",
          wait |-> per_intent_cooldown - (now - last_intent_time[intent_type])]
    ELSE [ok |-> TRUE, reason |-> "Cooldown passed", wait |-> Null]

\* get_next_allowed_time that answers the deadline of the first tier set
get_next_allowed_time_first(intent_type, now, lit, lpt, ldt) ==
    LET next_times ==
            (IF ldt # Null THEN <<ldt + dismiss_cooldown>> ELSE <<>>)
            \o (IF lpt # Null THEN <<lpt + global_cooldown>> ELSE <<>>)
            \o (IF intent_type \in DOMAIN lit
                THEN <<lit[intent_type] + per_intent_cooldown>> ELSE <<>>)
    IN  IF next_times = <<>> THEN Null
        ELSE IF next_times[1] <= now THEN Null
        ELSE next_times[1]

\* the deadline as a time (the code formats it with isoformat); Null for None
get_next_allowed_time(intent_type, now, lit, lpt, ldt) ==
    LET next_times ==
            (IF ldt # Null THEN <<ldt + dismiss_cooldown>> ELSE <<>>)
            \o (IF lpt # Null THEN <<lpt + global_cooldown>> ELSE <<>>)
            \o (IF intent_type \in DOMAIN lit
                THEN <<lit[intent_type] + per_intent_cooldown>> ELSE <<>>)
    IN  IF next_times = <<>> THEN Null
        ELSE IF SeqMax(next_times) <= now THEN Null
        ELSE SeqMax(next_times)

----------------------------------------------------------------------------
(* SpamFilter *)

Newer(s, cutoff) == SelectSeq(s, LAMBDA t : t > cutoff)

\* _cleanup_old_history: the two histories after the cleanup at time now
cleanup_popup_history(now) == Newer(popup_history, now - HOUR)

\* _cleanup_old_history with a cutoff of 3 seconds for the per-kind lists
cleanup_intent_history_short(now) ==
    LET kept == {k \in DOMAIN intent_history :
                    Newer(intent_history[k], now - 3) # <<>>}
    IN  [k \in kept |-> Newer(intent_history[k], now - 3)]

cleanup_intent_history(now) ==
    LET kept == {k \in DOMAIN intent_history :
                    Newer(intent_history[k], now - HOUR) # <<>>}
    IN  [k \in kept |-> Newer(intent_history[k], now - HOUR)]

\* is_spam with the hourly limit off by one
is_spam_offbyone(intent_type, now, ph, ih) ==
    IF Len(ph) > max_popups_per_hour
    THEN [spam |-> TRUE, reason |-> "Max popups/hour reached"]
    ELSE IF intent_type \in DOMAIN ih
            /\ SelectSeq(ih[intent_type],
                         LAMBDA t : now - t < same_intent_window) # <<>>
    THEN [spam |-> TRUE, reason |-> "Same intent shown recently"]
    ELSE [spam |-> FALSE, reason |-> "Not spam"]

\* is_spam without the hourly limit
is_spam_nolimit(intent_type, now, ph, ih) ==
    IF intent_type \in DOMAIN ih
       /\ SelectSeq(ih[intent_type],
                    LAMBDA t : now - t < same_intent_window) # <<>>
    THEN [spam |-> TRUE, reason |-> "Same intent shown recently"]
    ELSE [spam |-> FALSE, reason |-> "Not spam"]

\* is_spam, evaluated on the cleaned histories ph and ih
is_spam(intent_type, now, ph, ih) ==
    IF Len(ph) >= max_popups_per_hour
    THEN [spam |-> TRUE, reason |-> "Max popups/hour reached"]
    ELSE IF intent_type \in DOMAIN ih
            /\ SelectSeq(ih[intent_type],
                         LAMBDA t : now - t < same_intent_window) # <<>>
    THEN [spam |-> TRUE, reason |-> "Same intent shown recently"]
    ELSE [spam |-> FALSE, reason |-> "Not spam"]

----------------------------------------------------------------------------
(* ConfidenceDecay *)

context_changed_significantly(new_context) ==
    IF last_context = None THEN FALSE
    ELSE IF last_context[1].active_app # new_context.active_app THEN TRUE
    ELSE IF last_context[1].is_idle # new_context.is_idle THEN TRUE
    ELSE FALSE

\* apply_decay without the dismiss decay
apply_decay_nodismiss(intent, context, time_since_generation) ==
    LET c1 == intent.confidence
        c2 == IF last_context # None /\ context_changed_significantly(context)
              THEN c1 - CONTEXT_DECAY ELSE c1
        c3 == IF time_since_generation > TIME_DECAY_AFTER
              THEN c2 - Min(MAX_TIME_DECAY, time_since_generation)
              ELSE c2
    IN  Max(0, Min(SCALE, c3))

\* apply_decay whose dismiss decay counts the dismissals of every kind
apply_decay_anykind(intent, context, time_since_generation) ==
    LET dc == DictGet(dismiss_count, "suggest_help", 0)
              + DictGet(dismiss_count, "info", 0)
        c1 == IF dc > 0 THEN intent.confidence - DISMISS_DECAY * dc
              ELSE intent.confidence
        c2 == IF last_context # None /\ context_changed_significantly(context)
              THEN c1 - CONTEXT_DECAY ELSE c1
        c3 == IF time_since_generation > TIME_DECAY_AFTER
              THEN c2 - Min(MAX_TIME_DECAY, time_since_generation)
              ELSE c2
    IN  Max(0, Min(SCALE, c3))

\* age/300*0.2 in units of 1/1500 is the age itself
apply_decay(intent, context, time_since_generation) ==
    LET dc == DictGet(dismiss_count, intent.type, 0)
        c1 == IF dc > 0 THEN intent.confidence - DISMISS_DECAY * dc
              ELSE intent.confidence
        c2 == IF last_context # None /\ context_changed_significantly(context)
              THEN c1 - CONTEXT_DECAY ELSE c1
        c3 == IF time_since_generation > TIME_DECAY_AFTER
              THEN c2 - Min(MAX_TIME_DECAY, time_since_generation)
              ELSE c2
    IN  Max(0, Min(SCALE, c3))

----------------------------------------------------------------------------
(* DecisionEngine *)

NoResult == [approved |-> FALSE, intent |-> None, reason |-> "",
             next_allowed_time |-> Null]

(* ContextHub, as constructed *)

\* the threads that call get_context_snapshot: _monitoring_loop and the
\* main loop of the orchestrator
HubThreads == {"monitor", "loop"}

\* ContextHub.__init__; both threads are about to call
NewHub ==
    [snapshot_count |-> 0, error_count |-> 0,
     at |-> [th \in HubThreads |-> "call"],
     snap |-> [th \in HubThreads |-> 0],
     loaded |-> [th \in HubThreads |-> 0],
     built |-> [th \in HubThreads |-> None],
     returned |-> <<>>]

(* IPCServer, as constructed *)

\* the websocket clients that may connect
IpcClients == {"ui", "tray"}

\* IPCServer.__init__: no client; nothing received, nothing broadcast
NewIpc ==
    [clients |-> {}, inbox |-> [c \in IpcClients |-> <<>>],
     log |-> <<>>, raised |-> FALSE]

(* DummyModePool, as constructed *)

\* _get_fallback_responses(): the first two of its five messages, no
\* 'contexts' and no 'moods'
PoolMessages == <<"Butuh bantuan?", "Mau aku bantu?">>

FallbackResponses ==
    [suggest_help |-> PoolMessages, contexts |-> None, moods |-> None]

\* DummyModePool.__init__ with the responses _load_responses returned
NewPool(responses) ==
    [responses |-> responses, last_message |-> None, last_suggest_time |-> 0,
     usage_count |-> EmptyDict]

Init ==
    /\ clock = 1
    /\ last_intent_time = EmptyDict
    /\ last_popup_time = Null
    /\ last_dismiss_time = Null
    /\ popup_history = <<>>
    /\ intent_history = EmptyDict
    /\ dismiss_count = EmptyDict
    /\ last_context = None
    /\ result = NoResult
    /\ approvals = <<>>
    /\ dismissals = <<>>
    /\ resets = 0
    /\ fsm = [current_state |-> "idle",
              state_entered_at |-> clock,
              state_data |-> [intent |-> None, context |-> None],
              state_history |-> <<>>]
    /\ ret = FALSE
    /\ pc = "new"
    /\ brain = [mode |-> "auto", fallback_to_dummy |-> FALSE,
                available |-> FALSE]
    /\ pool = NewPool(FallbackResponses)
    /\ proposed = None
    /\ ipc_running = FALSE
    /\ ui_sent = <<>>
    /\ frames = <<>>
    /\ snapshot = None
    /\ called = {}
    /\ emitted = <<>>
    /\ hub = NewHub
    /\ ipc = NewIpc
    /\ decayed = None
    /\ triggered = None

\* time passes between two calls
AdvanceGate ==
    /\ \E t \in GateTimes : t > clock /\ clock' = t
    /\ UNCHANGED <<gateVars, fsmVars, orchVars>>

\* decide that checks the cooldowns before the confidence threshold
decide_cooldown_first(intent, context, time_since_generation, now) ==
    LET decayed_confidence == apply_decay(intent, context, time_since_generation)
        cool == can_show_intent(intent.type, now)
        spam == is_spam(intent.type, now, cleanup_popup_history(now),
                        cleanup_intent_history(now))
    IN  IF ~cool.ok
        THEN [approved |-> FALSE, intent |-> Some(intent),
              reason |-> "Cooldown: " \o cool.reason,
              next_allowed_time |->
                  get_next_allowed_time(intent.type, now, last_intent_time,
                                        last_popup_time, last_dismiss_time)]
        ELSE IF decayed_confidence < CONFIDENCE_THRESHOLD
        THEN [approved |-> FALSE, intent |-> Some(intent),
              reason |-> "Confidence too low", next_allowed_time |-> Null]
        ELSE IF spam.spam
        THEN [approved |-> FALSE, intent |-> Some(intent),
              reason |-> "Spam filter: " \o spam.reason,
              next_allowed_time |-> Null]
        ELSE [approved |-> TRUE, intent |-> Some(intent),
              reason |-> "All checks passed",
              next_allowed_time |->
                  get_next_allowed_time(intent.type, now,
                      DictSet(last_intent_time, intent.type, now), now,
                      last_dismiss_time)]

\* the DecisionResult evaluate returns at time now in the current state
decide(intent, context, time_since_generation, now) ==
    LET decayed_confidence == apply_decay(intent, context, time_since_generation)
        cool == can_show_intent(intent.type, now)
        spam == is_spam(intent.type, now, cleanup_popup_history(now),
                        cleanup_intent_history(now))
    IN  IF decayed_confidence < CONFIDENCE_THRESHOLD
        THEN [approved |-> FALSE, intent |-> Some(intent),
              reason |-> "Confidence too low", next_allowed_time |-> Null]
        ELSE IF ~cool.ok
        THEN [approved |-> FALSE, intent |-> Some(intent),
              reason |-> "Cooldown: " \o cool.reason,
              next_allowed_time |->
                  get_next_allowed_time(intent.type, now, last_intent_time,
                                        last_popup_time, last_dismiss_time)]
        ELSE IF spam.spam
        THEN [approved |-> FALSE, intent |-> Some(intent),
              reason |-> "Spam filter: " \o spam.reason,
              next_allowed_time |-> Null]
        ELSE [approved |-> TRUE, intent |-> Some(intent),
              reason |-> "All checks passed",
              next_allowed_time |->
                  get_next_allowed_time(intent.type, now,
                      DictSet(last_intent_time, intent.type, now), now,
                      last_dismiss_time)]

\* evaluate that stores the context only when it approves
evaluate_approved_only(intent, context, time_since_generation) ==
    LET now == clock
        d == decide(intent, context, time_since_generation, now)
        ph == cleanup_popup_history(now)
        ih == cleanup_intent_history(now)
    IN
    /\ result' = d
    /\ last_context' = IF d.approved THEN Some(context) ELSE last_context
    /\ UNCHANGED <<clock, dismiss_count, last_dismiss_time, dismissals, resets>>
    /\ IF d.approved
       THEN /\ last_popup_time' = now
            /\ last_intent_time' = DictSet(last_intent_time, intent.type, now)
            /\ popup_history' = Append(ph, now)
            /\ intent_history' =
                   DictSet(ih, intent.type,
                           Append(DictGet(ih, intent.type, <<>>), now))
            /\ approvals' = Append(approvals, [t |-> now, type |-> intent.type,
                                               nd |-> Len(dismissals)])
       ELSE IF d.reason \in {"Spam filter: Max popups/hour reached",
                             "Spam filter: Same intent shown recently"}
       THEN \* is_spam ran: the histories were cleaned
            /\ popup_history' = ph
            /\ intent_history' = ih
            /\ UNCHANGED <<last_intent_time, last_popup_time, approvals>>
       ELSE UNCHANGED <<last_intent_time, last_popup_time, popup_history,
                        intent_history, approvals>>

\* evaluate: the decision and the ledger updates of each of its exits
evaluate(intent, context, time_since_generation) ==
    LET now == clock
        d == decide(intent, context, time_since_generation, now)
        ph == cleanup_popup_history(now)
        ih == cleanup_intent_history(now)
    IN
    /\ result' = d
    /\ last_context' = Some(context)
    /\ UNCHANGED <<clock, dismiss_count, last_dismiss_time, dismissals, resets>>
    /\ IF d.approved
       THEN /\ last_popup_time' = now
            /\ last_intent_time' = DictSet(last_intent_time, intent.type, now)
            /\ popup_history' = Append(ph, now)
            /\ intent_history' =
                   DictSet(ih, intent.type,
                           Append(DictGet(ih, intent.type, <<>>), now))
            /\ approvals' = Append(approvals, [t |-> now, type |-> intent.type,
                                               nd |-> Len(dismissals)])
       ELSE IF d.reason \in {"Spam filter: Max popups/hour reached",
                             "Spam filter: Same intent shown recently"}
       THEN \* is_spam ran: the histories were cleaned
            /\ popup_history' = ph
            /\ intent_history' = ih
            /\ UNCHANGED <<last_intent_time, last_popup_time, approvals>>
       ELSE UNCHANGED <<last_intent_time, last_popup_time, popup_history,
                        intent_history, approvals>>

Evaluate ==
    /\ \E intent \in Intents, context \in Contexts, age \in Ages :
          evaluate(intent, context, age)
    /\ UNCHANGED <<fsmVars, orchVars>>

\* handle_user_dismiss that does not stamp the dismiss time
handle_user_dismiss_nostamp ==
    /\ dismissals' = Append(dismissals, clock)
    /\ result' = NoResult
    /\ UNCHANGED <<clock, last_intent_time, last_popup_time, popup_history,
                   intent_history, dismiss_count, last_context, approvals,
                   resets, last_dismiss_time>>

handle_user_dismiss ==
    /\ last_dismiss_time' = clock
    /\ dismissals' = Append(dismissals, clock)
    /\ result' = NoResult
    /\ UNCHANGED <<clock, last_intent_time, last_popup_time, popup_history,
                   intent_history, dismiss_count, last_context, approvals,
                   resets>>

handle_intent_dismissed(intent_type) ==
    /\ dismiss_count' = DictSet(dismiss_count, intent_type,
                                DictGet(dismiss_count, intent_type, 0) + 1)
    /\ result' = NoResult
    /\ UNCHANGED <<clock, last_intent_time, last_popup_time, last_dismiss_time,
                   popup_history, intent_history, last_context,
                   approvals, dismissals, resets>>

HandleUserDismiss ==
    /\ Len(dismissals) < MaxDismissCalls
    /\ handle_user_dismiss
    /\ UNCHANGED <<fsmVars, orchVars>>

HandleIntentDismissed ==
    \E k \in EvalKinds :
        /\ DictGet(dismiss_count, k, 0) < MaxDismiss
        /\ handle_intent_dismissed(k)
        /\ UNCHANGED <<fsmVars, orchVars>>

\* reset that leaves the dismiss timestamp of the cooldown manager
reset_keeps_dismiss ==
    /\ last_intent_time' = EmptyDict
    /\ last_popup_time' = Null
    /\ popup_history' = <<>>
    /\ intent_history' = EmptyDict
    /\ dismiss_count' = EmptyDict
    /\ last_context' = None
    /\ result' = NoResult
    /\ resets' = resets + 1
    /\ approvals' = <<>>
    /\ UNCHANGED <<clock, dismissals, last_dismiss_time>>

reset ==
    /\ last_intent_time' = EmptyDict
    /\ last_popup_time' = Null
    /\ last_dismiss_time' = Null
    /\ popup_history' = <<>>
    /\ intent_history' = EmptyDict
    /\ dismiss_count' = EmptyDict
    /\ last_context' = None
    /\ result' = NoResult
    /\ resets' = resets + 1
    /\ approvals' = <<>>
    /\ UNCHANGED <<clock, dismissals>>

GateNext ==
    \/ AdvanceGate
    \/ Evaluate
    \/ HandleUserDismiss
    \/ HandleIntentDismissed

SpecGate == Init /\ [][GateNext]_vars

Reset ==
    /\ resets < MaxResets
    /\ reset
    /\ UNCHANGED <<fsmVars, orchVars>>

GateResetNext ==
    \/ GateNext
    \/ Reset

SpecGateReset == Init /\ [][GateResetNext]_vars

----------------------------------------------------------------------------
(* BehaviorFSM *)

\* number of transitions the model lets the FSM record
MaxHistory == 3
\* calls happen in the first FsmFine seconds after the start and after each
\* state timeout measured from the start
FsmFine == 2

State == {"idle", "observing", "suggesting", "executing", "suppressed",
          "cooldown_global"}

Event == {"context_changed", "intent_approved", "user_dismiss", "user_action",
          "timeout", "cooldown_expired", "enter_focus_mode", "exit_focus_mode"}

\* TRANSITIONS with the direct idle -> suggesting entry removed
TRANSITIONS_noidle ==
    [st \in State |->
        CASE st = "idle" ->
                ("context_changed" :> "observing")
                @@ ("enter_focus_mode" :> "cooldown_global")
          [] st = "observing" ->
                ("intent_approved" :> "suggesting")
                @@ ("timeout" :> "idle")
                @@ ("enter_focus_mode" :> "cooldown_global")
          [] st = "suggesting" ->
                ("user_dismiss" :> "suppressed")
                @@ ("user_action" :> "executing")
                @@ ("timeout" :> "idle")
                @@ ("enter_focus_mode" :> "cooldown_global")
          [] st = "executing" ->
                ("timeout" :> "idle")
                @@ ("user_dismiss" :> "suppressed")
          [] st = "suppressed" ->
                ("cooldown_expired" :> "idle")
          [] st = "cooldown_global" ->
                ("exit_focus_mode" :> "idle")]

\* TRANSITIONS in which suppressed also leaves on timeout
TRANSITIONS_suppressed_timeout ==
    [st \in State |->
        CASE st = "idle" ->
                ("context_changed" :> "observing")
                @@ ("intent_approved" :> "suggesting")
                @@ ("enter_focus_mode" :> "cooldown_global")
          [] st = "observing" ->
                ("intent_approved" :> "suggesting")
                @@ ("timeout" :> "idle")
                @@ ("enter_focus_mode" :> "cooldown_global")
          [] st = "suggesting" ->
                ("user_dismiss" :> "suppressed")
                @@ ("user_action" :> "executing")
                @@ ("timeout" :> "idle")
                @@ ("enter_focus_mode" :> "cooldown_global")
          [] st = "executing" ->
                ("timeout" :> "idle")
                @@ ("user_dismiss" :> "suppressed")
          [] st = "suppressed" ->
                ("cooldown_expired" :> "idle")
                @@ ("timeout" :> "idle")
          [] st = "cooldown_global" ->
                ("exit_focus_mode" :> "idle")]

\* state -> (event -> next state)
\* TRANSITIONS in which focus mode ends by TIMEOUT like the timed states
TRANSITIONS_focus_timeout ==
    [st \in State |->
        CASE st = "idle" ->
                ("context_changed" :> "observing")
                @@ ("intent_approved" :> "suggesting")
                @@ ("enter_focus_mode" :> "cooldown_global")
          [] st = "observing" ->
                ("intent_approved" :> "suggesting")
                @@ ("timeout" :> "idle")
                @@ ("enter_focus_mode" :> "cooldown_global")
          [] st = "suggesting" ->
                ("user_dismiss" :> "suppressed")
                @@ ("user_action" :> "executing")
                @@ ("timeout" :> "idle")
                @@ ("enter_focus_mode" :> "cooldown_global")
          [] st = "executing" ->
                ("timeout" :> "idle")
                @@ ("user_dismiss" :> "suppressed")
          [] st = "suppressed" ->
                ("cooldown_expired" :> "idle")
          [] st = "cooldown_global" ->
                ("exit_focus_mode" :> "idle")
                @@ ("timeout" :> "idle")]

TRANSITIONS ==
    [st \in State |->
        CASE st = "idle" ->
                ("context_changed" :> "observing")
                @@ ("intent_approved" :> "suggesting")
                @@ ("enter_focus_mode" :> "cooldown_global")
          [] st = "observing" ->
                ("intent_approved" :> "suggesting")
                @@ ("timeout" :> "idle")
                @@ ("enter_focus_mode" :> "cooldown_global")
          [] st = "suggesting" ->
                ("user_dismiss" :> "suppressed")
                @@ ("user_action" :> "executing")
                @@ ("timeout" :> "idle")
                @@ ("enter_focus_mode" :> "cooldown_global")
          [] st = "executing" ->
                ("timeout" :> "idle")
                @@ ("user_dismiss" :> "suppressed")
          [] st = "suppressed" ->
                ("cooldown_expired" :> "idle")
          [] st = "cooldown_global" ->
                ("exit_focus_mode" :> "idle")]

STATE_TIMEOUTS ==
    ("observing" :> 30) @@ ("suggesting" :> 60) @@ ("executing" :> 10)
    @@ ("suppressed" :> 600)

(* Inputs *)

FsmTimes == {b + f : b \in {0} \cup {STATE_TIMEOUTS[st] : st \in DOMAIN STATE_TIMEOUTS},
                     f \in 1..FsmFine}

\* the reasoning texts an intent carries: none, or the proposer's note
Reasonings == {"", "Long idle in coding app"}

\* the intents handed to the FSM: a suggestion with the proposer's note
FsmIntents ==
    {[type |-> "suggest_help", confidence |-> 1275, message |-> "Need help?",
      reasoning |-> "Long idle in coding app"]}

\* snapshots: not interesting; idle for 3 minutes; many file changes; errors
FsmContexts ==
    {[active_app |-> "Chrome.exe", idle_time |-> 10,
      recent_file_changes |-> 0, error_count |-> 0],
     [active_app |-> "Code.exe", idle_time |-> 180,
      recent_file_changes |-> 3, error_count |-> 0],
     [active_app |-> "Code.exe", idle_time |-> 179,
      recent_file_changes |-> 4, error_count |-> 0],
     [active_app |-> "Code.exe", idle_time |-> 0,
      recent_file_changes |-> 0, error_count |-> 1]}

\* the data dictionaries the callers pass to trigger_event
NoData == [intent |-> None, context |-> None]
EventData ==
    {NoData}
    \cup {[intent |-> Some(i), context |-> None] : i \in FsmIntents}

UserActions == {"Ya", "Yes", "OK", "Nanti", "Later", "Dismiss", "Maybe"}

\* the decisions evaluate can return, as process_decision reads them
Decisions ==
    {[approved |-> TRUE, intent |-> Some(i), reason |-> "All checks passed"] :
        i \in FsmIntents}
    \cup {[approved |-> FALSE, intent |-> Some(i), reason |-> r] :
            i \in FsmIntents,
            r \in {"Confidence too low", "Cooldown: Global cooldown active",
                   "Spam filter: Same intent shown recently"}}

\* "Cooldown" in reason or "spam" in reason.lower()
MentionsCooldownOrSpam(reason) ==
    reason \in {"Cooldown: User dismissed recently",
                "Cooldown: Global cooldown active",
                "Cooldown: Intent cooldown active",
                "Spam filter: Max popups/hour reached",
                "Spam filter: Same intent shown recently"}

(* The methods, as functions from the FSM (and the time) to the FSM after *)
(* the call and the value returned                                        *)

_transition_to(f, next_state, event, data, now) ==
    [current_state |-> next_state,
     state_entered_at |-> now,
     state_data |-> [intent |-> data.intent, context |-> data.context],
     state_history |-> Append(f.state_history,
                              [from |-> f.current_state, to |-> next_state,
                               event |-> event, timestamp |-> now])]

\* the callbacks _transition_to invokes when both are registered
TransitionCallbacks == <<"state_change", "ui_update">>

\* trigger_event in which an event without table entry falls back to idle
trigger_event_fallback(f, event, data, now) ==
    IF event \notin DOMAIN TRANSITIONS[f.current_state]
    THEN [fsm |-> _transition_to(f, "idle", event, data, now),
          ret |-> FALSE, calls |-> TransitionCallbacks]
    ELSE [fsm |-> _transition_to(f, TRANSITIONS[f.current_state][event],
                                 event, data, now),
          ret |-> TRUE, calls |-> TransitionCallbacks]

\* calls: the callbacks invoked during the call
trigger_event(f, event, data, now) ==
    IF event \notin DOMAIN TRANSITIONS[f.current_state]
    THEN [fsm |-> f, ret |-> FALSE, calls |-> <<>>]
    ELSE [fsm |-> _transition_to(f, TRANSITIONS[f.current_state][event],
                                 event, data, now),
          ret |-> TRUE, calls |-> TransitionCallbacks]

\* check_timeout that fires only after the timeout was exceeded
check_timeout_strict(f, now) ==
    IF f.current_state \notin DOMAIN STATE_TIMEOUTS
    THEN [fsm |-> f, ret |-> FALSE, calls |-> <<>>]
    ELSE IF now - f.state_entered_at > STATE_TIMEOUTS[f.current_state]
    THEN trigger_event(f, "timeout", NoData, now)
    ELSE [fsm |-> f, ret |-> FALSE, calls |-> <<>>]

check_timeout(f, now) ==
    IF f.current_state \notin DOMAIN STATE_TIMEOUTS
    THEN [fsm |-> f, ret |-> FALSE, calls |-> <<>>]
    ELSE IF now - f.state_entered_at >= STATE_TIMEOUTS[f.current_state]
    THEN trigger_event(f, "timeout", NoData, now)
    ELSE [fsm |-> f, ret |-> FALSE, calls |-> <<>>]

\* get_ui_output that shows the reasoning of the intent when it has one
get_ui_output_reasoning(f) ==
    CASE f.current_state = "idle" ->
            [state |-> "idle", emotion |-> "neutral", visible |-> FALSE,
             bubble |-> None, actions |-> <<>>]
      [] f.current_state = "observing" ->
            [state |-> "observing", emotion |-> "curious", visible |-> TRUE,
             bubble |-> None, actions |-> <<>>]
      [] f.current_state = "suggesting" ->
            [state |-> "suggesting", emotion |-> "helpful", visible |-> TRUE,
             bubble |-> Some([text |-> IF f.state_data.intent = None
                                       THEN "Ada yang bisa kubantu?"
                                       ELSE IF f.state_data.intent[1].reasoning
                                                # ""
                                       THEN f.state_data.intent[1].reasoning
                                       ELSE f.state_data.intent[1].message,
                              actions |-> <<"Ya", "Nanti", "Dismiss">>]),
             actions |-> <<>>]
      [] f.current_state = "executing" ->
            [state |-> "executing", emotion |-> "working", visible |-> TRUE,
             bubble |-> Some([text |-> "Sedang diproses...",
                              actions |-> <<>>]),
             actions |-> <<>>]
      [] f.current_state \in {"suppressed", "cooldown_global"} ->
            [state |-> "suppressed", emotion |-> "quiet", visible |-> FALSE,
             bubble |-> None, actions |-> <<>>]

get_ui_output(f) ==
    CASE f.current_state = "idle" ->
            [state |-> "idle", emotion |-> "neutral", visible |-> FALSE,
             bubble |-> None, actions |-> <<>>]
      [] f.current_state = "observing" ->
            [state |-> "observing", emotion |-> "curious", visible |-> TRUE,
             bubble |-> None, actions |-> <<>>]
      [] f.current_state = "suggesting" ->
            [state |-> "suggesting", emotion |-> "helpful", visible |-> TRUE,
             bubble |-> Some([text |-> IF f.state_data.intent # None
                                       THEN f.state_data.intent[1].message
                                       ELSE "Ada yang bisa kubantu?",
                              actions |-> <<"Ya", "Nanti", "Dismiss">>]),
             actions |-> <<>>]
      [] f.current_state = "executing" ->
            [state |-> "executing", emotion |-> "working", visible |-> TRUE,
             bubble |-> Some([text |-> "Sedang diproses...",
                              actions |-> <<>>]),
             actions |-> <<>>]
      [] f.current_state \in {"suppressed", "cooldown_global"} ->
            [state |-> "suppressed", emotion |-> "quiet", visible |-> FALSE,
             bubble |-> None, actions |-> <<>>]

(* BehaviorController *)

\* _is_interesting_context that asks for more than three minutes of idling
_is_interesting_context_strict(context) ==
    IF context.idle_time > 180 THEN TRUE
    ELSE IF context.recent_file_changes > 3 THEN TRUE
    ELSE IF context.error_count > 0 THEN TRUE
    ELSE FALSE

_is_interesting_context(context) ==
    IF context.idle_time >= 180 THEN TRUE
    ELSE IF context.recent_file_changes > 3 THEN TRUE
    ELSE IF context.error_count > 0 THEN TRUE
    ELSE FALSE

handle_context_change(f, context, now) ==
    IF f.current_state = "idle" /\ _is_interesting_context(context)
    THEN trigger_event(f, "context_changed",
                       [intent |-> None, context |-> Some(context)], now)
    ELSE [fsm |-> f, ret |-> ret]

handle_intent_approved(f, intent, now) ==
    IF f.current_state \in {"idle", "observing"}
    THEN trigger_event(f, "intent_approved",
                       [intent |-> Some(intent), context |-> None], now)
    ELSE [fsm |-> f, ret |-> ret]

controller_handle_user_dismiss(f, now) ==
    IF f.current_state \in {"suggesting", "executing"}
    THEN trigger_event(f, "user_dismiss", NoData, now)
    ELSE [fsm |-> f, ret |-> ret]

\* handle_user_action without the check that the FSM is in SUGGESTING
handle_user_action_anystate(f, action, now) ==
    IF action \in {"Ya", "Yes", "OK"}
    THEN trigger_event(f, "user_action", NoData, now)
    ELSE IF action \in {"Nanti", "Later"}
    THEN trigger_event(f, "timeout", NoData, now)
    ELSE IF action = "Dismiss"
    THEN trigger_event(f, "user_dismiss", NoData, now)
    ELSE [fsm |-> f, ret |-> ret]

handle_user_action(f, action, now) ==
    IF f.current_state = "suggesting"
    THEN IF action \in {"Ya", "Yes", "OK"}
         THEN trigger_event(f, "user_action", NoData, now)
         ELSE IF action \in {"Nanti", "Later"}
         THEN trigger_event(f, "timeout", NoData, now)
         ELSE IF action = "Dismiss"
         THEN trigger_event(f, "user_dismiss", NoData, now)
         ELSE [fsm |-> f, ret |-> ret]
    ELSE [fsm |-> f, ret |-> ret]

enter_focus_mode(f, now) == trigger_event(f, "enter_focus_mode", NoData, now)

exit_focus_mode(f, now) ==
    IF f.current_state = "cooldown_global"
    THEN trigger_event(f, "exit_focus_mode", NoData, now)
    ELSE [fsm |-> f, ret |-> ret]

tick(f, now) ==
    LET c == check_timeout(f, now)
    IN  IF /\ c.fsm.current_state = "suppressed"
           /\ now - c.fsm.state_entered_at >= STATE_TIMEOUTS["suppressed"]
        THEN trigger_event(c.fsm, "cooldown_expired", NoData, now)
        ELSE c

process_decision(f, decision, now) ==
    IF decision.approved /\ decision.intent # None
    THEN handle_intent_approved(f, decision.intent[1], now)
    ELSE IF ~ decision.approved
    THEN IF /\ MentionsCooldownOrSpam(decision.reason)
            /\ f.current_state \notin {"suppressed", "cooldown_global"}
         THEN trigger_event(f, "timeout", NoData, now)
         ELSE [fsm |-> f, ret |-> ret]
    ELSE [fsm |-> f, ret |-> ret]

(* Actions: one call of a method at the current time *)

\* the call leaves the FSM and the returned value as r says
Call(r) ==
    /\ Len(fsm.state_history) < MaxHistory
    /\ fsm' = r.fsm
    /\ ret' = r.ret
    /\ UNCHANGED <<clock, gateVars, orchVars>>

AdvanceFsm ==
    /\ \E t \in FsmTimes : t > clock /\ clock' = t
    /\ UNCHANGED <<gateVars, fsmVars, orchVars>>

TriggerEvent ==
    \E e \in Event, d \in EventData : Call(trigger_event(fsm, e, d, clock))

CheckTimeout == Call(check_timeout(fsm, clock))

HandleContextChange ==
    \E c \in FsmContexts : Call(handle_context_change(fsm, c, clock))

HandleIntentApproved ==
    \E i \in FsmIntents : Call(handle_intent_approved(fsm, i, clock))

ControllerHandleUserDismiss == Call(controller_handle_user_dismiss(fsm, clock))

HandleUserAction ==
    \E a \in UserActions : Call(handle_user_action(fsm, a, clock))

EnterFocusMode == Call(enter_focus_mode(fsm, clock))

ExitFocusMode == Call(exit_focus_mode(fsm, clock))

Tick == Call(tick(fsm, clock))

ProcessDecision ==
    \E d \in Decisions : Call(process_decision(fsm, d, clock))

FsmNext ==
    \/ AdvanceFsm
    \/ TriggerEvent
    \/ CheckTimeout
    \/ HandleContextChange
    \/ HandleIntentApproved
    \/ ControllerHandleUserDismiss
    \/ HandleUserAction
    \/ EnterFocusMode
    \/ ExitFocusMode
    \/ Tick
    \/ ProcessDecision

SpecFsm == Init /\ [][FsmNext]_vars

----------------------------------------------------------------------------
(* Properties of the decision gate *)

ApprovalIdx == DOMAIN approvals

\* some decision approved at most `within` seconds before now, of kind k
ApprovedWithin(k, now, within) ==
    \E i \in ApprovalIdx :
        /\ approvals[i].type = k
        /\ now - approvals[i].t < within

\* C1: at every approved decision at time t, the number of approved
\* decisions with time in (t-3600, t] is at most max_popups_per_hour.
C1_MaxPopupsPerHour ==
    \A i \in ApprovalIdx :
        Cardinality({j \in ApprovalIdx :
                        /\ approvals[j].t > approvals[i].t - 3600
                        /\ approvals[j].t <= approvals[i].t})
            <= max_popups_per_hour

\* more decisions were approved than one hour admits: an old popup expired
\* from the rolling hour and a later intent was approved again
C1_Witness ==
    /\ Len(approvals) > max_popups_per_hour
    /\ approvals[Len(approvals)].t > 3600

\* no approved decision of any kind lies in (t - global_cooldown, t) of
\* another approved decision at time t
NoApprovalInGlobalWindow ==
    \A i, j \in ApprovalIdx :
        i # j => ~ (/\ approvals[j].t > approvals[i].t - global_cooldown
                    /\ approvals[j].t < approvals[i].t)

\* now lies within global_cooldown after an approved decision
InGlobalWindow ==
    \E i \in ApprovalIdx : clock - approvals[i].t < global_cooldown

\* C2 as stated: no two approved decisions are less than global_cooldown
\* apart, and every evaluate inside the window after an approved decision
\* is rejected with a reason mentioning "Global cooldown".
C2_Original ==
    /\ NoApprovalInGlobalWindow
    /\ InGlobalWindow =>
          \A intent \in Intents, context \in Contexts, age \in Ages :
              LET d == decide(intent, context, age, clock)
              IN  ~ d.approved /\ d.reason = "Cooldown: Global cooldown active"

\* C2 amended: no two approved decisions are less than global_cooldown
\* apart, and every evaluate inside the window is rejected; the reason
\* mentions "Global cooldown" when the decayed confidence reaches the
\* threshold and no dismiss cooldown is active (these two are checked first).
C2_GlobalCooldown ==
    /\ NoApprovalInGlobalWindow
    /\ InGlobalWindow =>
          \A intent \in Intents, context \in Contexts, age \in Ages :
              LET d == decide(intent, context, age, clock)
              IN  /\ ~ d.approved
                  /\ d.reason \in {"Confidence too low",
                                   "Cooldown: User dismissed recently",
                                   "Cooldown: Global cooldown active"}
                  /\ (/\ apply_decay(intent, context, age) >= 1050
                      /\ \A k \in DOMAIN dismissals :
                            clock - dismissals[k] >= dismiss_cooldown)
                     => d.reason = "Cooldown: Global cooldown active"

\* an evaluate made inside the global window was rejected for it
C2_Witness ==
    /\ InGlobalWindow
    /\ result.reason = "Cooldown: Global cooldown active"

\* C3: no two approved decisions of one kind are less than
\* per_intent_cooldown apart, and an evaluate is rejected for the per-kind
\* cooldown only if a decision of its own kind was approved less than
\* per_intent_cooldown ago: the cooldown of another kind does not block it.
C3_PerKindCooldown ==
    /\ \A i, j \in ApprovalIdx :
          (i # j /\ approvals[i].type = approvals[j].type)
              => ~ (/\ approvals[j].t > approvals[i].t - per_intent_cooldown
                    /\ approvals[j].t < approvals[i].t)
    /\ \A intent \in Intents, context \in Contexts, age \in Ages :
          decide(intent, context, age, clock).reason
                = "Cooldown: Intent cooldown active"
              => ApprovedWithin(intent.type, clock, per_intent_cooldown)
    /\ result.reason = "Cooldown: Intent cooldown active"
          => \E i \in ApprovalIdx : approvals[i].type = result.intent[1].type

\* the global cooldown has elapsed, kind k is rejected for its per-kind
\* cooldown and an intent of another kind would be approved
C3_Witness ==
    /\ result.reason = "Cooldown: Intent cooldown active"
    /\ ~ InGlobalWindow
    /\ \E intent \in Intents, context \in Contexts :
          /\ intent.type # result.intent[1].type
          /\ decide(intent, context, 0, clock).approved

\* now lies within dismiss_cooldown after a handle_user_dismiss call
InDismissWindow ==
    \E k \in DOMAIN dismissals : clock - dismissals[k] < dismiss_cooldown

\* C4: for every approved decision at time t no handle_user_dismiss call
\* before it happened in (t - dismiss_cooldown, t], and every evaluate
\* inside that window is rejected for every kind and confidence.
C4_DismissCooldown ==
    /\ \A i \in ApprovalIdx : \A k \in 1..approvals[i].nd :
          ~ (/\ dismissals[k] > approvals[i].t - dismiss_cooldown
             /\ dismissals[k] <= approvals[i].t)
    /\ InDismissWindow =>
          \A intent \in Intents, context \in Contexts, age \in Ages :
              ~ decide(intent, context, age, clock).approved

\* a decision was approved after a dismissal, at the very second the
\* dismiss cooldown ended
C4_Witness ==
    \E i \in ApprovalIdx :
        /\ approvals[i].nd > 0
        /\ approvals[i].t - dismissals[approvals[i].nd] = dismiss_cooldown

\* C5: no two approved decisions of the same kind are less than
\* same_intent_window apart, and the spam filter reports "same intent" only
\* for a kind that itself was approved less than same_intent_window ago.
C5_SameKindWindow ==
    /\ \A i, j \in ApprovalIdx :
          (i < j /\ approvals[i].type = approvals[j].type)
              => approvals[j].t - approvals[i].t >= same_intent_window
    /\ \A k \in EvalKinds :
          is_spam(k, clock, cleanup_popup_history(clock),
                  cleanup_intent_history(clock)).reason
                = "Same intent shown recently"
              => ApprovedWithin(k, clock, same_intent_window)

\* an intent was rejected because its kind was shown inside the window,
\* while the spam filter does not report the other kind
C5_Witness ==
    /\ result.reason = "Spam filter: Same intent shown recently"
    /\ \E k \in EvalKinds :
          /\ k # result.intent[1].type
          /\ ~ is_spam(k, clock, cleanup_popup_history(clock),
                       cleanup_intent_history(clock)).spam

\* the decayed confidence of section 4.3 of the specification
SpecDecayed(intent, context, age) ==
    LET n == IF intent.type \in DOMAIN dismiss_count
             THEN dismiss_count[intent.type] ELSE 0
        dctx == IF /\ last_context # None
                   /\ \/ last_context[1].active_app # context.active_app
                      \/ last_context[1].is_idle # context.is_idle
                THEN 225 ELSE 0
        dtime == IF age > 60 THEN (IF age < 300 THEN age ELSE 300) ELSE 0
        c == intent.confidence - 150 * n - dctx - dtime
    IN  IF c < 0 THEN 0 ELSE IF c > 1500 THEN 1500 ELSE c

NoHistory ==
    /\ dismiss_count = EmptyDict
    /\ last_context = None
    /\ last_dismiss_time = Null
    /\ last_popup_time = Null
    /\ last_intent_time = EmptyDict
    /\ popup_history = <<>>
    /\ intent_history = EmptyDict

\* C6: evaluate rejects with "Confidence too low" exactly when the decayed
\* confidence is strictly below 0.7, and an intent of confidence exactly
\* 0.70 and age 0 evaluated with no history is approved.
C6_Threshold ==
    /\ \A intent \in Intents, context \in Contexts, age \in Ages :
          (decide(intent, context, age, clock).reason = "Confidence too low")
              <=> (SpecDecayed(intent, context, age) < 1050)
    /\ NoHistory =>
          \A k \in EvalKinds, context \in Contexts :
              decide([type |-> k, confidence |-> 1050], context, 0,
                     clock).approved

\* an intent of confidence exactly 0.70 was approved as the first popup
C6_Witness ==
    /\ result.approved
    /\ result.intent[1].confidence = 1050
    /\ Len(approvals) = 1
    /\ Len(popup_history) = 1

\* every fresh intent (age 0) with confidence >= 0.7 would be approved now
FreshApproved ==
    \A intent \in Intents, context \in Contexts :
        intent.confidence >= 1050
            => decide(intent, context, 0, clock).approved

\* C7: after any sequence of evaluate and dismiss calls, reset() leads to a
\* state in which the evaluate of a fresh intent (age 0) of any kind with
\* confidence >= 0.7 returns approved.
C7_ResetThenApproved == [][reset => FreshApproved']_vars

\* an intent was approved after a reset, inside the dismiss cooldown of a
\* dismissal that happened before the reset
C7_Witness ==
    /\ resets > 0
    /\ Len(approvals) = 1
    /\ result.approved
    /\ InDismissWindow

----------------------------------------------------------------------------
(* Properties of the behavior FSM *)

\* the transition table of section 4.4 of the specification: from, event, to
SpecTable ==
    {<<"idle", "context_changed", "observing">>,
     <<"idle", "intent_approved", "suggesting">>,
     <<"idle", "enter_focus_mode", "cooldown_global">>,
     <<"observing", "intent_approved", "suggesting">>,
     <<"observing", "timeout", "idle">>,
     <<"observing", "enter_focus_mode", "cooldown_global">>,
     <<"suggesting", "user_dismiss", "suppressed">>,
     <<"suggesting", "user_action", "executing">>,
     <<"suggesting", "timeout", "idle">>,
     <<"suggesting", "enter_focus_mode", "cooldown_global">>,
     <<"executing", "user_dismiss", "suppressed">>,
     <<"executing", "timeout", "idle">>,
     <<"suppressed", "cooldown_expired", "idle">>,
     <<"cooldown_global", "exit_focus_mode", "idle">>}

\* in the current state, trigger_event moves to s2 exactly on a table entry
TriggerFollowsTable ==
    \A e \in Event, d \in EventData :
        LET r == trigger_event(fsm, e, d, clock)
        IN  IF \E s2 \in State : <<fsm.current_state, e, s2>> \in SpecTable
            THEN /\ r.ret
                 /\ <<fsm.current_state, e, r.fsm.current_state>> \in SpecTable
            ELSE /\ ~ r.ret
                 /\ r.fsm.current_state = fsm.current_state

\* the recorded transitions are table entries and chain from IDLE, where the
\* FSM is constructed, to the current state
HistoryFollowsTable ==
    LET h == fsm.state_history
    IN  /\ \A i \in DOMAIN h : <<h[i].from, h[i].event, h[i].to>> \in SpecTable
        /\ \A i \in 1..(Len(h) - 1) : h[i].to = h[i + 1].from
        /\ IF h = <<>>
           THEN fsm.current_state = "idle"
           ELSE /\ h[1].from = "idle"
                /\ h[Len(h)].to = fsm.current_state

TriggerIntentApproved ==
    \E d \in EventData : Call(trigger_event(fsm, "intent_approved", d, clock))

TickByTimeout ==
    LET st == fsm.current_state
        elapsed == clock - fsm.state_entered_at
        h2 == fsm'.state_history
        fired(limit, e) ==
            IF elapsed >= limit
            THEN /\ fsm'.current_state = "idle"
                 /\ Len(h2) = Len(fsm.state_history) + 1
                 /\ h2[Len(h2)].event = e
            ELSE fsm' = fsm
    IN  CASE st = "observing" -> fired(30, "timeout")
          [] st = "suggesting" -> fired(60, "timeout")
          [] st = "executing" -> fired(10, "timeout")
          [] st = "suppressed" -> fired(600, "cooldown_expired")
          [] OTHER -> fsm' = fsm

\* C10: tick() moves OBSERVING (30 s), SUGGESTING (60 s) and EXECUTING
\* (10 s) to IDLE via TIMEOUT and SUPPRESSED (600 s) to IDLE via
\* COOLDOWN_EXPIRED when now - state_entered_at >= the timeout, leaves the
\* state unchanged below the timeout, and never changes IDLE and
\* COOLDOWN_GLOBAL.
C10_TickTimeouts == [][Tick => TickByTimeout]_vars

\* SUPPRESSED was left by COOLDOWN_EXPIRED exactly 600 s after it was entered
C10_Witness ==
    /\ fsm.current_state = "idle"
    /\ Len(fsm.state_history) >= 2
    /\ LET h == fsm.state_history
           n == Len(fsm.state_history)
       IN  /\ h[n].event = "cooldown_expired"
           /\ h[n].from = "suppressed"
           /\ h[n].timestamp - h[n - 1].timestamp = 600

\* a step taken in focus mode leaves the FSM as it is, unless it is the
\* EXIT_FOCUS_MODE transition to IDLE
FocusStep ==
    fsm.current_state = "cooldown_global" =>
        \/ fsm' = fsm
        \/ /\ fsm'.current_state = "idle"
           /\ fsm'.state_history =
                  Append(fsm.state_history,
                         [from |-> "cooldown_global", to |-> "idle",
                          event |-> "exit_focus_mode", timestamp |-> clock])

\* C12: ENTER_FOCUS_MODE from IDLE leads to COOLDOWN_GLOBAL; there no
\* snapshot, tick, approved intent, decision or user action changes the
\* state (OBSERVING and SUGGESTING are not entered) and ui_output is not
\* visible; EXIT_FOCUS_MODE returns the FSM to IDLE.
C12_FocusMode ==
    [][/\ (EnterFocusMode /\ fsm.current_state = "idle")
            => (fsm'.current_state = "cooldown_global"
                /\ ~ get_ui_output(fsm').visible)
       /\ FocusStep
       /\ (fsm.current_state = "cooldown_global")
            => ~ get_ui_output(fsm).visible
       /\ (ExitFocusMode /\ fsm.current_state = "cooldown_global")
            => fsm'.current_state = "idle"]_vars

\* focus mode was entered from IDLE and left again by EXIT_FOCUS_MODE
C12_Witness ==
    /\ fsm.current_state = "idle"
    /\ Len(fsm.state_history) = 2
    /\ fsm.state_history[1].from = "idle"
    /\ fsm.state_history[1].event = "enter_focus_mode"
    /\ fsm.state_history[2].event = "exit_focus_mode"
    /\ fsm.state_history[2].timestamp > fsm.state_history[1].timestamp

\* the FSM after the event the mapping of section 4.4 gives the string
MappedEvent(f, action, now) ==
    IF action \in {"Ya", "Yes", "OK"}
    THEN trigger_event(f, "user_action", NoData, now).fsm
    ELSE IF action \in {"Nanti", "Later"}
    THEN trigger_event(f, "timeout", NoData, now).fsm
    ELSE IF action = "Dismiss"
    THEN trigger_event(f, "user_dismiss", NoData, now).fsm
    ELSE f

\* C20 as stated: in every state handle_user_action has the effect of the
\* mapped event: USER_ACTION for Ya/Yes/OK, TIMEOUT for Nanti/Later,
\* USER_DISMISS for Dismiss, nothing for any other string.
C20_Original ==
    \A a \in UserActions :
        handle_user_action(fsm, a, clock).fsm = MappedEvent(fsm, a, clock)

\* C20 amended: in SUGGESTING handle_user_action has the effect of the
\* mapped event; in every other state it leaves the FSM unchanged whatever
\* the string is.
C20_UserActionMapping ==
    \A a \in UserActions :
        handle_user_action(fsm, a, clock).fsm =
            IF fsm.current_state = "suggesting"
            THEN MappedEvent(fsm, a, clock)
            ELSE fsm

\* a suggestion was accepted and the FSM, now EXECUTING, still has a
\* TIMEOUT and a USER_DISMISS entry that no action string triggers
C20_Witness ==
    /\ fsm.current_state = "executing"
    /\ Len(fsm.state_history) >= 1
    /\ fsm.state_history[Len(fsm.state_history)].event = "user_action"
    /\ MappedEvent(fsm, "Dismiss", clock).current_state = "suppressed"
    /\ handle_user_action(fsm, "Dismiss", clock).fsm = fsm

\* the same intent, data, decision and FSM with the reasoning text r
WithReasoning(intent, r) == [intent EXCEPT !.reasoning = r]

OptWithReasoning(o, r) ==
    IF o = None THEN None ELSE Some(WithReasoning(o[1], r))

FsmWithReasoning(f, r) ==
    [f EXCEPT !.state_data.intent = OptWithReasoning(@, r)]

DataWithReasoning(d, r) == [d EXCEPT !.intent = OptWithReasoning(@, r)]

\* the texts a UI update carries
UiTexts(u) ==
    {u.state, u.emotion}
    \cup (IF u.bubble = None THEN {} ELSE {u.bubble[1].text})
    \cup (IF u.bubble = None THEN {}
          ELSE {u.bubble[1].actions[i] : i \in DOMAIN u.bubble[1].actions})
    \cup {u.actions[i] : i \in DOMAIN u.actions}

\* every method takes FSMs that differ only in the reasoning text to FSMs
\* that differ only in the reasoning text, with the same returned value
SameStepsForReasoning(r) ==
    LET g == FsmWithReasoning(fsm, r)
        same(a, b) == /\ FsmWithReasoning(a.fsm, r) = FsmWithReasoning(b.fsm, r)
                      /\ a.ret = b.ret
    IN  /\ \A e \in Event, d \in EventData :
              same(trigger_event(fsm, e, d, clock),
                   trigger_event(g, e, DataWithReasoning(d, r), clock))
        /\ \A i \in FsmIntents :
              same(handle_intent_approved(fsm, i, clock),
                   handle_intent_approved(g, WithReasoning(i, r), clock))
        /\ \A d \in Decisions :
              same(process_decision(fsm, d, clock),
                   process_decision(g, DataWithReasoning(d, r), clock))
        /\ \A c \in FsmContexts :
              same(handle_context_change(fsm, c, clock),
                   handle_context_change(g, c, clock))
        /\ \A a \in UserActions :
              same(handle_user_action(fsm, a, clock),
                   handle_user_action(g, a, clock))
        /\ same(controller_handle_user_dismiss(fsm, clock),
                controller_handle_user_dismiss(g, clock))
        /\ same(tick(fsm, clock), tick(g, clock))
        /\ same(enter_focus_mode(fsm, clock), enter_focus_mode(g, clock))
        /\ same(exit_focus_mode(fsm, clock), exit_focus_mode(g, clock))

\* C15: the UI update get_ui_output builds is the same whatever the
\* reasoning text of the held intent is and carries no reasoning text, and
\* the FSM takes the same steps whatever the reasoning text is: two runs
\* that differ only in the reasoning produce the same UI updates.
C15_ReasoningNonInterference ==
    /\ \A r \in Reasonings :
          /\ get_ui_output(FsmWithReasoning(fsm, r)) = get_ui_output(fsm)
          /\ SameStepsForReasoning(r)
    /\ UiTexts(get_ui_output(fsm)) \cap (Reasonings \ {""}) = {}

\* the FSM shows a suggestion whose intent carries a reasoning text
C15_Witness ==
    /\ fsm.current_state = "suggesting"
    /\ fsm.state_data.intent # None
    /\ fsm.state_data.intent[1].reasoning = "Long idle in coding app"
    /\ get_ui_output(fsm).bubble[1].text = "Need help?"

----------------------------------------------------------------------------
(* The proposers: AIBrain (backend/core/ai_brain.py, used by main.py) and  *)
(* AIBrainV2 (backend/core/ai_brain_v2.py, used by main_v2.py)             *)

AIMode == {"ollama", "dummy", "auto"}

\* what a probe of the Ollama service finds: it answers, it answers with
\* an error status, it cannot be reached
Healths == {"ok", "non200", "down"}

\* what the LLM sends back for one prompt: the fields of its JSON answer,
\* text that is not JSON, or no answer (an error status, a timeout)
LlmAnswers ==
    {[kind |-> "json", intent |-> "suggest_help", confidence |-> 1275,
      message |-> "Kamu lagi stuck?",
      reasoning |-> "User idle 5min in coding app, might be stuck"],
     [kind |-> "json", intent |-> "remind", confidence |-> 1200,
      message |-> "Istirahat dulu?", reasoning |-> "Long session"]}

LlmReplies ==
    LlmAnswers
    \cup {[kind |-> k, intent |-> "", confidence |-> 0, message |-> "",
           reasoning |-> ""] : k \in {"badjson", "error"}}

\* the snapshots of the context hub the loops read: idle in the editor,
\* browsing, editing many files
OrchSnapshots ==
    {[active_app |-> "Code.exe", is_idle |-> TRUE, idle_time |-> 350,
      recent_file_changes |-> 0, error_count |-> 0],
     [active_app |-> "Chrome.exe", is_idle |-> FALSE, idle_time |-> 10,
      recent_file_changes |-> 0, error_count |-> 0],
     [active_app |-> "Code.exe", is_idle |-> FALSE, idle_time |-> 0,
      recent_file_changes |-> 5, error_count |-> 0]}

\* the application names of the snapshots, character by character
AppChars ==
    "Code.exe" :> <<"C", "o", "d", "e", ".", "e", "x", "e">>
    @@ "Chrome.exe" :> <<"C", "h", "r", "o", "m", "e", ".", "e", "x", "e">>
    @@ "Visual Studio" :> <<"V", "i", "s", "u", "a", "l", " ",
                            "S", "t", "u", "d", "i", "o">>
    @@ "PYTHON.EXE" :> <<"P", "Y", "T", "H", "O", "N", ".", "E", "X", "E">>

\* str.lower on the capitals of AppChars
LowerCase ==
    "C" :> "c" @@ "V" :> "v" @@ "S" :> "s" @@ "P" :> "p" @@ "Y" :> "y"
    @@ "T" :> "t" @@ "H" :> "h" @@ "O" :> "o" @@ "N" :> "n" @@ "E" :> "e"
    @@ "X" :> "x"

lower(chars) ==
    [i \in DOMAIN chars |->
        IF chars[i] \in DOMAIN LowerCase THEN LowerCase[chars[i]]
        ELSE chars[i]]

\* sub in chars
Contains(chars, sub) ==
    \E i \in 1..(Len(chars) - Len(sub) + 1) :
        SubSeq(chars, i, i + Len(sub) - 1) = sub

\* 'code' in active_app.lower()
HasCode(active_app) ==
    Contains(lower(AppChars[active_app]), <<"c", "o", "d", "e">>)

\* 'code', 'studio' or 'python' in active_app.lower()
IsCodingApp(active_app) ==
    LET a == lower(AppChars[active_app])
    IN  \/ Contains(a, <<"c", "o", "d", "e">>)
        \/ Contains(a, <<"s", "t", "u", "d", "i", "o">>)
        \/ Contains(a, <<"p", "y", "t", "h", "o", "n">>)

\* "suggest_help" in intent_str or "help" in intent_str
HasHelp(intent_str) == intent_str = "suggest_help"

(* AIBrain *)

\* _check_ollama_availability with the probe's outcome h
_check_ollama_availability(b, h) ==
    IF h = "ok" THEN [b EXCEPT !.available = TRUE]
    ELSE IF h = "non200" THEN [b EXCEPT !.available = FALSE]
    ELSE [b EXCEPT !.available = FALSE,
                   !.fallback_to_dummy = (b.mode = "auto") \/ @]

v1_generate_with_dummy(context) ==
    IF context.idle_time >= 300 /\ HasCode(context.active_app)
    THEN [type |-> "suggest_help", confidence |-> 1275,
          message |-> "Kamu idle 5 menit, mau aku rangkum progress hari ini?",
          reasoning |-> "Long idle in coding app"]
    ELSE IF context.idle_time >= 180 /\ context.error_count > 0
    THEN [type |-> "suggest_help", confidence |-> 1200,
          message |-> "Ada error yang belum tertangani, mau aku bantu cek?",
          reasoning |-> "Idle with errors"]
    ELSE IF context.recent_file_changes >= 5
    THEN [type |-> "info", confidence |-> 1125,
          message |-> "Kamu sudah mengubah "
                      \o ToString(context.recent_file_changes)
                      \o " file, jangan lupa commit ya!",
          reasoning |-> "Many file changes"]
    ELSE IF context.idle_time >= 60 /\ context.idle_time < 180
    THEN [type |-> "remind", confidence |-> 975,
          message |-> "Sudah 1 menit idle, mau istirahat sebentar?",
          reasoning |-> "Short idle period"]
    ELSE [type |-> "none", confidence |-> 0, message |-> "",
          reasoning |-> "No interesting context"]

\* _generate_with_ollama for an answer of the LLM (llm.kind # "error")
v1_generate_with_ollama(context, llm) ==
    IF llm.kind = "badjson" THEN v1_generate_with_dummy(context)
    ELSE [type |-> IF HasHelp(llm.intent) THEN "suggest_help"
                   ELSE IF llm.intent = "remind" THEN "remind"
                   ELSE IF llm.intent = "info" THEN "info"
                   ELSE "none",
          confidence |-> llm.confidence,
          message |-> llm.message,
          reasoning |-> llm.reasoning]

\* AIBrain.generate_intent: the intent returned and the brain afterwards;
\* h is what a probe of the service would find, llm what the LLM would send
v1_generate_intent(b, context, h, llm) ==
    LET tries == \/ b.mode = "ollama"
                 \/ b.mode = "auto" /\ ~ b.fallback_to_dummy
        b1 == IF tries /\ ~ b.available
              THEN _check_ollama_availability(b, h) ELSE b
        use_ollama == tries /\ b1.available
    IN  IF use_ollama /\ llm.kind # "error"
        THEN [intent |-> v1_generate_with_ollama(context, llm), brain |-> b1]
        ELSE IF use_ollama /\ b.mode # "auto"
        THEN [intent |-> [type |-> "none", confidence |-> 0, message |-> "",
                          reasoning |-> "LLM failed"],
              brain |-> b1]
        ELSE [intent |-> v1_generate_with_dummy(context),
              brain |-> IF use_ollama
                        THEN [b1 EXCEPT !.fallback_to_dummy = TRUE] ELSE b1]

(* DummyModePool *)

\* the reading of time.time() the pool compares with its initial
\* last_suggest_time of 0: the model's clock counts from the start of the
\* program, time.time() from 1970
EPOCH == 1000

\* the seconds get_message leaves between two messages
SUGGEST_INTERVAL == 30

\* random.uniform(-0.03, 0.03): the two ends
Noises == {-45, 45}

\* datetime.now().hour, in UTC
HourOfDay(now) == ((EPOCH + now) \div HOUR) % 24

\* _select_pool for a snapshot (a snapshot is never an empty dict); a key
\* the JSON file lacks reads as an empty list
_select_pool(responses, context, now) ==
    LET hour == HourOfDay(now)
        mood_messages ==
            IF responses.moods = None THEN <<>>
            ELSE IF 5 <= hour /\ hour < 12 THEN responses.moods[1].morning
            ELSE IF 12 <= hour /\ hour < 17 THEN responses.moods[1].afternoon
            ELSE IF 17 <= hour /\ hour < 22 THEN responses.moods[1].evening
            ELSE responses.moods[1].night
    IN  IF /\ context.error_count > 0
           /\ responses.contexts # None
           /\ responses.contexts[1].error_detected # <<>>
        THEN responses.contexts[1].error_detected
        ELSE IF /\ context.idle_time >= 600
                /\ responses.contexts # None
                /\ responses.contexts[1].long_idle # <<>>
        THEN responses.contexts[1].long_idle
        ELSE IF mood_messages # <<>>
        THEN mood_messages \o responses.suggest_help
        ELSE responses.suggest_help

\* get_message that also offers the last message
get_message_repeat(p, context, now) ==
    IF (EPOCH + now) - p.last_suggest_time < SUGGEST_INTERVAL
    THEN {[message |-> None, pool |-> p, raised |-> FALSE]}
    ELSE LET messages == _select_pool(p.responses, context, now)
         IN  IF messages = <<>>
             THEN {[message |-> None, pool |-> p, raised |-> TRUE]}
             ELSE {[message |-> Some(m),
                    pool |-> [p EXCEPT
                                !.last_message = Some(m),
                                !.last_suggest_time = EPOCH + now,
                                !.usage_count =
                                    DictSet(@, m, DictGet(@, m, 0) + 1)],
                    raised |-> FALSE] :
                      m \in {messages[i] : i \in DOMAIN messages}}

\* get_message without the interval between two messages
get_message_nointerval(p, context, now) ==
    LET messages == _select_pool(p.responses, context, now)
        others == SelectSeq(messages, LAMBDA m : Some(m) # p.last_message)
        available == IF others = <<>> THEN messages ELSE others
    IN  IF available = <<>>
        THEN {[message |-> None, pool |-> p, raised |-> TRUE]}
        ELSE {[message |-> Some(m),
               pool |-> [p EXCEPT
                           !.last_message = Some(m),
                           !.last_suggest_time = EPOCH + now,
                           !.usage_count =
                               DictSet(@, m, DictGet(@, m, 0) + 1)],
               raised |-> FALSE] :
                 m \in {available[i] : i \in DOMAIN available}}

\* get_message(SUGGEST_HELP, context), the possible results: no message in
\* the 30 seconds after the last one; else one of the messages of the
\* selected pool other than the last one, or any of the pool when there is
\* no other (random.choices gives every candidate a positive weight, 1 /
\* (usage + 1), so each can be drawn; the sort by usage does not change the
\* candidates); random.choices raises IndexError on an empty list, before
\* the pool is updated
get_message(p, context, now) ==
    IF (EPOCH + now) - p.last_suggest_time < SUGGEST_INTERVAL
    THEN {[message |-> None, pool |-> p, raised |-> FALSE]}
    ELSE LET messages == _select_pool(p.responses, context, now)
             others == SelectSeq(messages,
                                 LAMBDA m : Some(m) # p.last_message)
             available == IF others = <<>> THEN messages ELSE others
         IN  IF available = <<>>
             THEN {[message |-> None, pool |-> p, raised |-> TRUE]}
             ELSE {[message |-> Some(m),
                    pool |-> [p EXCEPT
                                !.last_message = Some(m),
                                !.last_suggest_time = EPOCH + now,
                                !.usage_count =
                                    DictSet(@, m, DictGet(@, m, 0) + 1)],
                    raised |-> FALSE] :
                      m \in {available[i] : i \in DOMAIN available}}

get_confidence(context, noise) ==
    LET c1 == IF context.idle_time >= 300 THEN 1050 + 150
              ELSE IF context.idle_time >= 180 THEN 1050 + 75
              ELSE 1050
        c2 == IF context.error_count > 0 THEN c1 + 75 ELSE c1
    IN  Min(1350, Max(1050, c2 + noise))

(* OllamaClient *)

\* check_health
check_health(b, h) == [b EXCEPT !.available = (h = "ok")]

\* OllamaClient.generate_intent: None when the call fails or the answer
\* is not JSON
ollama_generate_intent(b, llm) ==
    IF ~ b.available THEN None
    ELSE IF llm.kind \in {"badjson", "error"} THEN None
    ELSE Some([type |-> IF HasHelp(llm.intent) THEN "suggest_help"
                        ELSE "none",
               confidence |-> llm.confidence,
               message |-> llm.message,
               reasoning |-> ""])

(* AIBrainV2 *)

\* the Intent of kind none _generate_with_dummy returns by default
NoIntent == [type |-> "none", confidence |-> 0, message |-> "",
             reasoning |-> ""]

\* the value of 'active_app' when the window monitor has no window: None
NoApp == "None"

\* _generate_with_dummy: the possible results, one for each draw of the
\* pool and of the noise; raised: the call ends in an exception
\* (None.lower() for a snapshot without application, IndexError from the
\* pool)
v2_generate_with_dummy(p, context, now) ==
    IF context.active_app = NoApp
    THEN {[intent |-> NoIntent, pool |-> p, raised |-> TRUE]}
    ELSE IF context.idle_time >= 60 /\ IsCodingApp(context.active_app)
    THEN UNION {IF g.raised
                THEN {[intent |-> NoIntent, pool |-> g.pool,
                       raised |-> TRUE]}
                ELSE IF g.message # None
                THEN {[intent |-> [type |-> "suggest_help",
                                   confidence |-> get_confidence(context, n),
                                   message |-> g.message[1],
                                   reasoning |-> ""],
                       pool |-> g.pool, raised |-> FALSE] : n \in Noises}
                ELSE {[intent |-> NoIntent, pool |-> g.pool,
                       raised |-> FALSE]} :
               g \in get_message(p, context, now)}
    ELSE {[intent |-> NoIntent, pool |-> p, raised |-> FALSE]}

\* AIBrainV2.generate_intent: the possible results (intent, brain, pool,
\* raised, via: the path that gave the intent)
v2_generate_intent(b, p, context, h, llm, now) ==
    LET o == ollama_generate_intent(b, llm)
    IN  IF b.mode # "dummy" /\ b.available /\ o # None
        THEN {[intent |-> o[1], brain |-> b, pool |-> p, raised |-> FALSE,
               via |-> "ollama"]}
        ELSE LET b1 == IF b.mode # "dummy" /\ b.available /\ b.mode = "auto"
                       THEN check_health(b, h) ELSE b
             IN  {[intent |-> g.intent, brain |-> b1, pool |-> g.pool,
                   raised |-> g.raised, via |-> "dummy"] :
                     g \in v2_generate_with_dummy(p, context, now)}

----------------------------------------------------------------------------
(* The orchestrators: main_v2.py and main.py.  Both build the gate with    *)
(* its default arguments; the model keeps the gate's parameters above.     *)

\* the sleep that ends an iteration of the loop ("polling_interval")
polling_interval == 2
\* the sleep of main.py while the popup shows
POPUP_SLEEP == 10

\* number of transitions the orchestrators let the FSM record
OrchHistory == 3
\* number of UI updates main_v2 sends
MaxUi == 2
\* number of user_action frames the IPC server handles
MaxFrames == 1
\* main.py: the loop runs in the first V1Fine popup sleeps after the start
\* and in the first V1Late ones after the suppression has run out
V1Fine == 3
V1Late == 2

\* main_v2: the loop runs OrchFine times at the shortest pace after the
\* start, and OrchLate times after the first full hour
OrchFine == 2
OrchLate == 1

OrchTimes == {1 + polling_interval * k : k \in 0..OrchFine}
             \cup {HOUR + 1 + polling_interval * k : k \in 0..(OrchLate - 1)}

V1Times == {1 + POPUP_SLEEP * k : k \in 0..V1Fine}
           \cup {1 + STATE_TIMEOUTS["suppressed"] + POPUP_SLEEP * k :
                    k \in 1..V1Late}

\* the actions the UI sends in a user_action frame
IpcActions == {"Ya", "Dismiss"}

NewBrain(mode) ==
    [mode |-> mode, fallback_to_dummy |-> FALSE, available |-> FALSE]

\* process_decision returns the UI output after an approval, else None
process_decision_ui(f, decision, now) ==
    IF decision.approved /\ decision.intent # None
    THEN Some(get_ui_output(process_decision(f, decision, now).fsm))
    ELSE None

\* the dict main_v2 builds from a UIOutput
ui_dict(ui_output) ==
    [state |-> ui_output.state, emotion |-> ui_output.emotion,
     visible |-> ui_output.visible, bubble |-> ui_output.bubble,
     actions |-> ui_output.actions]

(* main_v2.py *)

\* ORBITOrchestrator.__init__ and start with "ai_mode" of the
\* configuration in modes: the proposer is built in that mode and probes
\* the LLM service
V2InitIn(modes) ==
    /\ pc = "new"
    /\ \E mode \in modes, h \in Healths :
          brain' = IF mode \in {"ollama", "auto"}
                   THEN check_health(NewBrain(mode), h)
                   ELSE NewBrain(mode)
    /\ pc' = "loop"
    /\ UNCHANGED <<clock, gateVars, fsmVars, pool, proposed, ipc_running,
                   ui_sent, frames,
                   snapshot, emitted, called, hub, ipc, decayed, triggered>>

V2Init == V2InitIn(AIMode)

\* the configuration _load_config returns when there is no file
V2InitDefault == V2InitIn({"dummy"})

\* the LLM is asked, and the service probed after a failure, only when the
\* proposer has a client that is available
LlmInputs(b) ==
    IF b.mode # "dummy" /\ b.available
    THEN LlmReplies
    ELSE {r \in LlmReplies : r.kind = "error"}

HealthInputs(b) ==
    IF b.mode = "auto" /\ b.available THEN Healths ELSE {"down"}

\* the thread of _start_ipc_server has set ipc_loop and the server runs
IpcStart ==
    /\ pc # "new"
    /\ ~ ipc_running
    /\ ipc_running' = TRUE
    /\ UNCHANGED <<clock, gateVars, fsmVars, pc, brain, pool, proposed,
                   ui_sent, frames,
                   snapshot, emitted, called, hub, ipc, decayed, triggered>>

\* the log of the fallback messages after generate_intent gave g at now
Emit(g, now) ==
    IF g.via = "dummy" /\ ~ g.raised /\ g.intent.message # ""
    THEN Append(emitted, [message |-> g.intent.message, t |-> now])
    ELSE emitted

\* one iteration of _main_loop up to its sleep (the sleep of the except
\* clause when generate_intent raises)
V2Iteration ==
    /\ pc = "loop"
    /\ \E context \in OrchSnapshots, h \in HealthInputs(brain),
          llm \in LlmInputs(brain) :
       \E g \in v2_generate_intent(brain, pool, context, h, llm, clock) :
          LET decision == decide(g.intent, context, 0, clock)
              p == process_decision(fsm, decision, clock)
              ui_output == process_decision_ui(fsm, decision, clock)
          IN  /\ brain' = g.brain
              /\ pool' = g.pool
              /\ snapshot' = Some(context)
              /\ emitted' = Emit(g, clock)
              /\ IF g.raised
                 THEN /\ called' = {"proposer"}
                      /\ UNCHANGED <<clock, gateVars, fsmVars, proposed,
                                     ui_sent>>
                 ELSE /\ Len(p.fsm.state_history) <= OrchHistory
                      /\ ui_output # None /\ ipc_running
                            => Len(ui_sent) < MaxUi
                      /\ proposed' = Some(g.intent)
                      /\ evaluate(g.intent, context, 0)
                      /\ fsm' = p.fsm
                      /\ ret' = p.ret
                      /\ ui_sent' = IF ui_output # None /\ ipc_running
                                    THEN Append(ui_sent,
                                                ui_dict(ui_output[1]))
                                    ELSE ui_sent
                      /\ called' = {"proposer", "gate"}
    /\ pc' = "sleep"
    /\ UNCHANGED <<ipc_running, frames, hub, ipc, decayed, triggered>>

\* time.sleep(poll_interval)
V2Sleep ==
    /\ pc = "sleep"
    /\ \E t \in OrchTimes : t >= clock + polling_interval /\ clock' = t
    /\ pc' = "loop"
    /\ UNCHANGED <<gateVars, fsmVars, brain, pool, proposed, ipc_running,
                   ui_sent, frames,
                   snapshot, emitted, called, hub, ipc, decayed, triggered>>

\* IPCServer._handle_message for a user_action frame: _handle_user_action
\* writes a log line
IpcUserAction ==
    /\ ipc_running
    /\ Len(frames) < MaxFrames
    /\ \E a \in IpcActions :
          frames' = Append(frames, [action |-> a,
                                    state |-> fsm.current_state])
    /\ UNCHANGED <<clock, gateVars, fsmVars, pc, brain, pool, proposed,
                   ipc_running, ui_sent, snapshot, emitted, called, hub, ipc,
                   decayed, triggered>>

V2Next ==
    \/ V2Init
    \/ IpcStart
    \/ V2Iteration
    \/ V2Sleep
    \/ IpcUserAction

SpecV2 == Init /\ [][V2Next]_vars

\* the loop goes on after the last time of OrchTimes: the sleep ends and
\* the model keeps its clock
V2Horizon ==
    /\ pc = "sleep"
    /\ \A t \in OrchTimes : t < clock + polling_interval
    /\ pc' = "loop"
    /\ UNCHANGED <<clock, gateVars, fsmVars, brain, pool, proposed,
                   ipc_running, ui_sent, frames,
                   snapshot, emitted, called, hub, ipc, decayed, triggered>>

\* main_v2.py with the default configuration
V2FairNext ==
    \/ V2InitDefault
    \/ IpcStart
    \/ V2Iteration
    \/ V2Sleep
    \/ V2Horizon
    \/ IpcUserAction

\* the loop keeps iterating, its sleeps end and the IPC thread gets to run
SpecV2Fair ==
    /\ Init
    /\ [][V2FairNext]_vars
    /\ WF_vars(V2InitDefault)
    /\ WF_vars(IpcStart)
    /\ WF_vars(V2Iteration)
    /\ WF_vars(V2Sleep)
    /\ WF_vars(V2Horizon)

(* main.py *)

\* the snapshots main.py's loop gets: those of main_v2's and two at the
\* limits of _is_interesting_context
V1Snapshots ==
    OrchSnapshots
    \cup {[active_app |-> "Chrome.exe", is_idle |-> TRUE, idle_time |-> 180,
           recent_file_changes |-> 3, error_count |-> 0],
          [active_app |-> "Chrome.exe", is_idle |-> FALSE, idle_time |-> 10,
           recent_file_changes |-> 0, error_count |-> 1]}

\* ORBITOrchestrator.__init__: the proposer is built in the mode of the
\* command line and probes the LLM service
V1Init ==
    /\ pc = "new"
    /\ \E mode \in AIMode, h \in Healths :
          brain' = IF mode \in {"ollama", "auto"}
                   THEN _check_ollama_availability(NewBrain(mode), h)
                   ELSE NewBrain(mode)
    /\ pc' = "loop"
    /\ UNCHANGED <<clock, gateVars, fsmVars, pool, proposed, ipc_running,
                   ui_sent, frames,
                   snapshot, emitted, called, hub, ipc, decayed, triggered>>

\* one iteration of _main_loop up to its first sleep: the sleep while the
\* popup shows after an approval, else the sleep that ends the iteration
\* (also after the AttributeError of fsm.Event for an intent of kind none)
V1Iteration ==
    /\ pc = "loop"
    /\ \E context \in V1Snapshots, h \in Healths, llm \in LlmReplies :
          /\ snapshot' = Some(context)
          /\ LET c == handle_context_change(fsm, context, clock)
                 t == tick(c.fsm, clock)
                 g == v1_generate_intent(brain, context, h, llm)
                 decision == decide(g.intent, context, 0, clock)
                 a == handle_intent_approved(t.fsm, g.intent, clock)
             IN  IF t.fsm.current_state # "observing"
                 THEN /\ Len(t.fsm.state_history) <= OrchHistory
                      /\ fsm' = t.fsm
                      /\ ret' = t.ret
                      /\ pc' = "sleep"
                      /\ called' = {}
                      /\ UNCHANGED <<clock, gateVars, brain, proposed>>
                 ELSE IF g.intent.type = "none"
                 THEN /\ Len(t.fsm.state_history) <= OrchHistory
                      /\ fsm' = t.fsm
                      /\ ret' = t.ret
                      /\ brain' = g.brain
                      /\ proposed' = Some(g.intent)
                      /\ pc' = "sleep"
                      /\ called' = {"proposer"}
                      /\ UNCHANGED <<clock, gateVars>>
                 ELSE /\ Len(a.fsm.state_history) < OrchHistory
                      /\ brain' = g.brain
                      /\ proposed' = Some(g.intent)
                      /\ evaluate(g.intent, context, 0)
                      /\ called' = {"proposer", "gate"}
                      /\ IF decision.approved
                         THEN /\ fsm' = a.fsm
                              /\ ret' = a.ret
                              /\ pc' = "popup"
                         ELSE /\ fsm' = t.fsm
                              /\ ret' = t.ret
                              /\ pc' = "sleep"
    /\ UNCHANGED <<pool, ipc_running, ui_sent, frames, emitted, hub, ipc,
                   decayed, triggered>>

\* time.sleep(10) while the popup shows
V1PopupSleep ==
    /\ pc = "popup"
    /\ \E t \in V1Times : t >= clock + POPUP_SLEEP /\ clock' = t
    /\ pc' = "dismiss"
    /\ UNCHANGED <<gateVars, fsmVars, brain, pool, proposed, ipc_running,
                   ui_sent, frames,
                   snapshot, emitted, called, hub, ipc, decayed, triggered>>

\* the automatic dismissal: behavior_controller.handle_user_dismiss() and
\* decision_engine.handle_user_dismiss()
V1AutoDismiss ==
    /\ pc = "dismiss"
    /\ LET r == controller_handle_user_dismiss(fsm, clock)
       IN  /\ fsm' = r.fsm
           /\ ret' = r.ret
    /\ handle_user_dismiss
    /\ pc' = "sleep"
    /\ UNCHANGED <<brain, pool, proposed, ipc_running, ui_sent, frames,
                   snapshot, emitted, called, hub, ipc, decayed, triggered>>

\* time.sleep(self.polling_interval)
V1Sleep ==
    /\ pc = "sleep"
    /\ \E t \in V1Times : t >= clock + polling_interval /\ clock' = t
    /\ pc' = "loop"
    /\ UNCHANGED <<gateVars, fsmVars, brain, pool, proposed, ipc_running,
                   ui_sent, frames,
                   snapshot, emitted, called, hub, ipc, decayed, triggered>>

V1Next ==
    \/ V1Init
    \/ V1Iteration
    \/ V1PopupSleep
    \/ V1AutoDismiss
    \/ V1Sleep

SpecV1 == Init /\ [][V1Next]_vars

----------------------------------------------------------------------------
(* Properties of the orchestrators *)

\* C11: in the loop of main_v2.py a timed state (OBSERVING, SUGGESTING,
\* EXECUTING, SUPPRESSED) is always followed by IDLE, given that the loop
\* keeps iterating
C11_TimedStatesReturnToIdle ==
    (fsm.current_state \in DOMAIN STATE_TIMEOUTS)
        ~> (fsm.current_state = "idle")

\* C13: after an iteration of main_v2.py in which the gate approved an
\* intent (of a kind other than none) the FSM is in SUGGESTING and holds
\* that intent: the held intent is the one of the most recent approval
C13_HeldIntentIsApproved ==
    (pc = "sleep" /\ result.approved /\ result.intent[1].type # "none") =>
        /\ fsm.current_state = "suggesting"
        /\ fsm.state_data.intent = result.intent

\* C14: no intent of kind none is ever approved, recorded in the cooldown
\* or spam ledgers, or held by the FSM in SUGGESTING (the consequence the
\* claim draws from none never being passed to evaluate)
C14_NoneNeverApproved ==
    /\ \A i \in DOMAIN approvals : approvals[i].type # "none"
    /\ "none" \notin DOMAIN last_intent_time
    /\ "none" \notin DOMAIN intent_history
    /\ (fsm.current_state = "suggesting" /\ fsm.state_data.intent # None)
           => fsm.state_data.intent[1].type # "none"

\* C17: a Dismiss frame the IPC server handles while the FSM is in
\* SUGGESTING is followed by the FSM in SUPPRESSED and a stamped dismiss
\* time in the gate
C17_DismissFrameRouted ==
    (\E i \in DOMAIN frames :
        frames[i].action = "Dismiss" /\ frames[i].state = "suggesting")
        ~> (fsm.current_state = "suppressed" /\ last_dismiss_time # Null)

\* the state a UI update shows for an FSM state
UiState(st) ==
    get_ui_output([fsm EXCEPT !.current_state = st]).state

\* every UI output process_decision returned was sent: main_v2 drops one
\* while the IPC thread has not started the server, and process_decision
\* returns one for each approval
NoUiDropped == Len(ui_sent) = Len(approvals)

\* C19: the last UI update main_v2.py sent shows the state the last
\* transition of the FSM led to, so that an update follows when SUGGESTING
\* is left (as long as no update was dropped before the IPC server ran)
C19_UiFollowsTransitions ==
    (NoUiDropped /\ fsm.state_history # <<>>) =>
        /\ ui_sent # <<>>
        /\ ui_sent[Len(ui_sent)].state = UiState(fsm.current_state)

\* C16: the Intent generate_intent of AIBrain returned last has an empty
\* reasoning field
C16_ReasoningEmpty ==
    proposed # None => proposed[1].reasoning = ""

\* the sum of the dismiss counts of all kinds
DismissTotal ==
    DictGet(dismiss_count, "suggest_help", 0) + DictGet(dismiss_count, "remind", 0)
    + DictGet(dismiss_count, "info", 0) + DictGet(dismiss_count, "none", 0)

\* the transitions of the FSM a dismissal made
DismissTransitions ==
    {i \in DOMAIN fsm.state_history :
        /\ fsm.state_history[i].event = "user_dismiss"
        /\ fsm.state_history[i].to = "suppressed"}

\* C18: in main.py every dismissal that moved the FSM to SUPPRESSED came
\* with both gate updates: the dismiss time is the time of the last such
\* transition and the dismiss counts add up to the number of dismissals
C18_DismissalAccounting ==
    /\ \A i \in DismissTransitions :
          last_dismiss_time >= fsm.state_history[i].timestamp
    /\ DismissTransitions # {} =>
          \E i \in DismissTransitions :
              last_dismiss_time = fsm.state_history[i].timestamp
    /\ DismissTotal = Cardinality(DismissTransitions)

----------------------------------------------------------------------------
(* The tick of main.py *)

\* the snapshot is interesting: three minutes of idling, more than three
\* recent file changes, or an error
Interesting(c) ==
    c.idle_time >= 180 \/ c.recent_file_changes > 3 \/ c.error_count > 0

\* the step is one iteration of main.py's loop
V1Tick == pc = "loop" /\ pc' # "loop"

\* the transitions the FSM makes in the step
NewTransitions ==
    {i \in DOMAIN fsm'.state_history : i > Len(fsm.state_history)}

FiredContextChanged ==
    \E i \in NewTransitions : fsm'.state_history[i].event = "context_changed"

\* the FSM was in OBSERVING after the timeout processing of the step: it
\* is there when the iteration ends, or it left OBSERVING by the approval
ObservingAfterTick ==
    \/ fsm'.current_state = "observing"
    \/ \E i \in NewTransitions :
          /\ i = Len(fsm'.state_history)
          /\ fsm'.state_history[i].from = "observing"
          /\ fsm'.state_history[i].event = "intent_approved"

----------------------------------------------------------------------------
(* SpamFilter called on its own *)

\* number of popups the model lets the filter hold
MaxRecorded == 3

\* SpamFilter.record_popup
record_popup(intent_type) ==
    LET now == clock
    IN  /\ popup_history' = Append(popup_history, now)
        /\ intent_history' =
               DictSet(intent_history, intent_type,
                       Append(DictGet(intent_history, intent_type, <<>>),
                              now))

RecordPopup ==
    /\ Len(popup_history) < MaxRecorded
    /\ \E k \in EvalKinds : record_popup(k)
    /\ UNCHANGED <<clock, last_intent_time, last_popup_time,
                   last_dismiss_time, dismiss_count, last_context, result,
                   approvals, dismissals, resets, fsmVars, orchVars>>

\* SpamFilter.is_spam called for some kind: it cleans both histories
IsSpam ==
    /\ popup_history' = cleanup_popup_history(clock)
    /\ intent_history' = cleanup_intent_history(clock)
    /\ UNCHANGED <<clock, last_intent_time, last_popup_time,
                   last_dismiss_time, dismiss_count, last_context, result,
                   approvals, dismissals, resets, fsmVars, orchVars>>

SpamNext ==
    \/ AdvanceGate
    \/ RecordPopup
    \/ IsSpam

SpecSpam == Init /\ [][SpamNext]_vars

\* the number of recorded popups whose timestamp lies in the last hour
RollingCount(ph, now) == Len(Newer(ph, now - HOUR))

\* C22 as stated: after any sequence of record_popup calls the number of
\* recorded popups of the last 3600 seconds is at most max_popups_per_hour
C22_Original == RollingCount(popup_history, clock) <= max_popups_per_hour

\* the step is a record_popup call for kind k
RecordStep(k) ==
    /\ Len(popup_history') = Len(popup_history) + 1
    /\ k \in DOMAIN intent_history'
    /\ intent_history'[k] # DictGet(intent_history, k, <<>>)

\* C22: when record_popup is called at a time at which is_spam answers
\* "not spam" for the kind (the way evaluate calls it), the number of
\* recorded popups of the last 3600 seconds is at most max_popups_per_hour
\* when it returns
C22_RecordAfterCheck ==
    [][\A k \in EvalKinds :
          (/\ RecordStep(k)
           /\ ~ is_spam(k, clock, cleanup_popup_history(clock),
                        cleanup_intent_history(clock)).spam)
             => RollingCount(popup_history', clock') <= max_popups_per_hour
      ]_vars

\* a popup was recorded that filled the hour's budget, after a popup older
\* than one hour had left the count
C22_Witness ==
    /\ popup_history # <<>>
    /\ popup_history[Len(popup_history)] = clock
    /\ popup_history[1] <= clock - HOUR
    /\ RollingCount(popup_history, clock) = max_popups_per_hour
    /\ \E k \in DOMAIN intent_history :
          SelectSeq(intent_history[k],
                    LAMBDA t : clock - t < same_intent_window) = <<clock>>

----------------------------------------------------------------------------
(* AIBrainV2 in dummy mode, called on its own *)

\* the calls happen every PoolStep seconds: PoolFine times after the start
\* at night, then PoolLate times after five o'clock in the morning
PoolStep == 15
PoolFine == 4
PoolLate == 2

PoolTimes == {1 + PoolStep * k : k \in 0..PoolFine}
             \cup {5 * HOUR + PoolStep * k : k \in 0..PoolLate}

\* what _load_responses may return: the fallback responses, a file with
\* an empty 'suggest_help', a file with a single message and lists for
\* errors and for the morning
ResponseFiles ==
    {FallbackResponses,
     [suggest_help |-> <<>>, contexts |-> None, moods |-> None],
     [suggest_help |-> <<"Butuh bantuan?">>,
      contexts |-> Some([error_detected |-> <<"Ada error nih?",
                                              "Butuh bantuan?">>,
                         long_idle |-> <<>>]),
      moods |-> Some([morning |-> <<"Pagi! Butuh bantuan?">>,
                      afternoon |-> <<>>, evening |-> <<>>,
                      night |-> <<>>])]}

DummySnapshots ==
    {[active_app |-> "Code.exe", is_idle |-> TRUE, idle_time |-> 350,
      recent_file_changes |-> 0, error_count |-> 0],
     [active_app |-> "Code.exe", is_idle |-> TRUE, idle_time |-> 100,
      recent_file_changes |-> 0, error_count |-> 0],
     [active_app |-> "PYTHON.EXE", is_idle |-> FALSE, idle_time |-> 30,
      recent_file_changes |-> 0, error_count |-> 0],
     [active_app |-> "Chrome.exe", is_idle |-> TRUE, idle_time |-> 350,
      recent_file_changes |-> 0, error_count |-> 0],
     [active_app |-> "Visual Studio", is_idle |-> TRUE, idle_time |-> 300,
      recent_file_changes |-> 0, error_count |-> 1],
     [active_app |-> NoApp, is_idle |-> FALSE, idle_time |-> 0,
      recent_file_changes |-> 0, error_count |-> 0]}

\* AIBrainV2(mode=DUMMY)
PoolInit ==
    /\ pc = "new"
    /\ brain' = NewBrain("dummy")
    /\ \E r \in ResponseFiles : pool' = NewPool(r)
    /\ pc' = "loop"
    /\ UNCHANGED <<clock, gateVars, fsmVars, proposed, ipc_running, ui_sent,
                   frames, snapshot, emitted, called, hub, ipc, decayed,
                   triggered>>

\* generate_intent(context); proposed is None when the call raised
DummyCall ==
    /\ pc = "loop"
    /\ \E context \in DummySnapshots, llm \in LlmInputs(brain) :
       \E g \in v2_generate_intent(brain, pool, context, "down", llm, clock) :
          /\ brain' = g.brain
          /\ pool' = g.pool
          /\ snapshot' = Some(context)
          /\ proposed' = IF g.raised THEN None ELSE Some(g.intent)
          /\ emitted' = Emit(g, clock)
    /\ called' = {"proposer"}
    /\ pc' = "sleep"
    /\ UNCHANGED <<clock, gateVars, fsmVars, ipc_running, ui_sent, frames,
                   hub, ipc, decayed, triggered>>

\* the time until the next call
PoolSleep ==
    /\ pc = "sleep"
    /\ \E t \in PoolTimes : t > clock /\ clock' = t
    /\ pc' = "loop"
    /\ UNCHANGED <<gateVars, fsmVars, brain, pool, proposed, ipc_running,
                   ui_sent, frames, snapshot, emitted, called, hub, ipc,
                   decayed, triggered>>

PoolNext ==
    \/ PoolInit
    \/ DummyCall
    \/ PoolSleep

SpecPool == Init /\ [][PoolNext]_vars

\* generate_intent has just returned or raised
AfterCall == pc = "sleep" /\ snapshot # None

\* C23: in dummy mode generate_intent returns kind suggest_help only if
\* idle_time >= 300 and the lower-cased application name contains 'code',
\* 'studio' or 'python'
C23_FallbackRule ==
    (AfterCall /\ proposed # None /\ proposed[1].type = "suggest_help")
        => /\ snapshot[1].idle_time >= 300
           /\ IsCodingApp(snapshot[1].active_app)

\* the pool _select_pool gives for the snapshot of the call
SelectedPool == _select_pool(pool.responses, snapshot[1], clock)

\* C24: when the pool selected for the snapshot is empty, generate_intent
\* returns the Intent of kind none (confidence 0, empty message) and does
\* not raise; stated for the snapshots with an application and five
\* minutes of idling
C24_EmptyPoolGivesNone ==
    (/\ AfterCall
     /\ snapshot[1].active_app # NoApp
     /\ snapshot[1].idle_time >= 300
     /\ SelectedPool = <<>>)
        => proposed = Some(NoIntent)

\* the call has just returned a fallback message, and not the first one
SecondMessage ==
    /\ AfterCall
    /\ Len(emitted) >= 2
    /\ emitted[Len(emitted)].t = clock

\* C25: two fallback messages returned one after the other are never
\* equal, unless the pool chosen for the later one holds no message other
\* than the earlier one; also when the chosen pool changes between calls
C25_NoImmediateRepeat ==
    (/\ SecondMessage
     /\ emitted[Len(emitted)].message = emitted[Len(emitted) - 1].message)
        => \A i \in DOMAIN SelectedPool :
              SelectedPool[i] = emitted[Len(emitted) - 1].message

\* a message of the night was followed in the morning by another message,
\* drawn from a pool that also holds the message of the night
C25_Witness ==
    /\ SecondMessage
    /\ emitted[Len(emitted) - 1].t < 5 * HOUR
    /\ clock >= 5 * HOUR
    /\ \E i \in DOMAIN SelectedPool :
          SelectedPool[i] = emitted[Len(emitted) - 1].message
    /\ SelectedPool # pool.responses.suggest_help
    /\ emitted[Len(emitted)].message # emitted[Len(emitted) - 1].message

\* the step is a generate_intent call
CallStep == pc = "loop" /\ pc' = "sleep"

\* the call is made before the interval since the last fallback message
\* has elapsed
InsideInterval ==
    /\ emitted # <<>>
    /\ clock - emitted[Len(emitted)].t < SUGGEST_INTERVAL

\* C26: any two fallback messages are returned at least the interval (30
\* seconds) apart; a call before the interval has elapsed returns no
\* message, gives the Intent of kind none (for a snapshot that names an
\* application) and leaves the interval, last_message and the usage counts
\* as they are
C26_MinimumInterval ==
    [][CallStep =>
         /\ \A i, j \in DOMAIN emitted' :
               i < j => emitted'[j].t - emitted'[i].t >= SUGGEST_INTERVAL
         /\ InsideInterval
               => /\ emitted' = emitted
                  /\ pool' = pool
                  /\ snapshot'[1].active_app # NoApp
                        => proposed' = Some(NoIntent)]_vars

\* a call for a snapshot that satisfies the rule came 15 seconds after a
\* message and got the Intent of kind none
C26_Witness ==
    /\ AfterCall
    /\ InsideInterval
    /\ clock > emitted[Len(emitted)].t
    /\ snapshot[1].active_app # NoApp
    /\ snapshot[1].idle_time >= 300
    /\ IsCodingApp(snapshot[1].active_app)
    /\ SelectedPool # <<>>
    /\ proposed = Some(NoIntent)

----------------------------------------------------------------------------
(* AIBrainV2 with an LLM, called on its own *)

\* LLM answers whose confidence is 5.0 and -0.5
LlmWildAnswers ==
    {[kind |-> "json", intent |-> "suggest_help", confidence |-> c,
      message |-> "Kamu lagi stuck?",
      reasoning |-> "User idle 5min in coding app, might be stuck"] :
        c \in {5 * SCALE, -(SCALE \div 2)}}

\* AIBrainV2(mode) for OLLAMA and AUTO: the client probes the service
LlmInit ==
    /\ pc = "new"
    /\ \E mode \in {"ollama", "auto"}, h \in Healths :
          brain' = check_health(NewBrain(mode), h)
    /\ pc' = "loop"
    /\ UNCHANGED <<clock, gateVars, fsmVars, pool, proposed, ipc_running,
                   ui_sent, frames, snapshot, emitted, called, hub, ipc,
                   decayed, triggered>>

\* generate_intent(context); proposed is None when the call raised
LlmCall ==
    /\ pc = "loop"
    /\ \E context \in OrchSnapshots, h \in HealthInputs(brain),
          llm \in LlmInputs(brain) \cup
                  (IF brain.available THEN LlmWildAnswers ELSE {}) :
       \E g \in v2_generate_intent(brain, pool, context, h, llm, clock) :
          /\ brain' = g.brain
          /\ pool' = g.pool
          /\ snapshot' = Some(context)
          /\ proposed' = IF g.raised THEN None ELSE Some(g.intent)
          /\ emitted' = Emit(g, clock)
    /\ called' = {"proposer"}
    /\ pc' = "sleep"
    /\ UNCHANGED <<clock, gateVars, fsmVars, ipc_running, ui_sent, frames,
                   hub, ipc, decayed, triggered>>

LlmNext ==
    \/ LlmInit
    \/ LlmCall
    \/ PoolSleep

SpecLlm == Init /\ [][LlmNext]_vars

----------------------------------------------------------------------------
(* Properties of the LLM path *)

\* C27: the LLM is marked unhealthy only after three consecutive LLM
\* failures, one or two failures degrade only the failing call: so the
\* first generate_intent call of a proposer whose LLM is healthy leaves it
\* healthy, whether the LLM request fails or not
C27_OneFailureKeepsHealthy ==
    [][(pc = "loop" /\ snapshot = None /\ brain.available)
          => brain'.available]_vars

\* C28: every Intent the proposer returns has kind suggest_help or none,
\* and no Intent of another kind reaches the decision gate
C28_OnlyHelpOrNone ==
    /\ proposed # None => proposed[1].type \in {"suggest_help", "none"}
    /\ result.intent # None
          => result.intent[1].type \in {"suggest_help", "none"}

\* C29: every Intent the proposer returns has a confidence in [0, 1]
C29_ConfidenceInRange ==
    proposed # None
        => proposed[1].confidence >= 0 /\ proposed[1].confidence <= SCALE

----------------------------------------------------------------------------
(* ContextHub.get_context_snapshot, called by two threads *)

\* number of calls the model lets the threads start
MaxSnapshots == 3

notHub == <<clock, gateVars, fsmVars, pc, brain, pool, proposed,
            ipc_running, ui_sent, frames, snapshot, emitted, called,
            ipc, decayed, triggered>>

\* what the operating system gives a monitor: the foreground process name,
\* or the win32 call raises
OsWindow == {"Code.exe", "error"}

\* GetLastInputInfo: the idle seconds, or the call raises
OsIdle == {Some(300), None}

\* the watcher's event history: the number of recent events, or reading
\* it raises
OsFiles == {Some(2), None}

\* WindowMonitor.get_active_window_info: an exception is caught inside the
\* monitor, which answers _empty_result()
get_active_window_info(os) ==
    IF os = "error" THEN [app_name |-> NoApp] ELSE [app_name |-> os]

\* IdleDetector.get_idle_time: an exception is caught inside, the answer
\* is 0
get_idle_time(os) == IF os = None THEN 0 ELSE os[1]

THRESHOLD_SHORT == 60

\* IdleDetector.get_idle_status
get_idle_status(os) ==
    LET idle_time == get_idle_time(os)
    IN  [idle_time |-> idle_time, is_idle |-> idle_time >= THRESHOLD_SHORT]

\* ContextHub._empty_snapshot
_empty_snapshot(h) ==
    [active_app |-> NoApp, idle_time |-> 0, is_idle |-> FALSE,
     recent_file_changes |-> 0, error_count |-> h.error_count,
     snapshot_count |-> h.snapshot_count]

\* one line of the log of returned snapshots: the snapshot, its
\* snapshot_count, whether the except clause produced it, what the
\* monitors were given and _error_count when the call began
Returned(snap, error, os, before) ==
    [count |-> snap.snapshot_count, error |-> error, snapshot |-> snap,
     os |-> os, before |-> before]

\* the call reads the monitors and builds the snapshot with the current
\* _snapshot_count; or the file watcher raises: the except clause counts
\* the error and returns _empty_snapshot(), which carries the current
\* _snapshot_count
HubBuild(th) ==
    /\ hub.at[th] = "call"
    /\ Len(hub.returned) < MaxSnapshots
    /\ \E w \in OsWindow, i \in OsIdle, f \in OsFiles :
          LET window_info == get_active_window_info(w)
              idle_status == get_idle_status(i)
              os == [window |-> w, idle |-> i, files |-> f]
              counted == [hub EXCEPT !.error_count = @ + 1]
          IN  IF f = None
              THEN hub' = [counted EXCEPT
                             !.returned =
                                 Append(@, Returned(_empty_snapshot(counted),
                                                    TRUE, os,
                                                    hub.error_count))]
              ELSE hub' = [hub EXCEPT
                             !.snap[th] = hub.snapshot_count,
                             !.built[th] =
                                 Some(Returned(
                                     [active_app |-> window_info.app_name,
                                      idle_time |-> idle_status.idle_time,
                                      is_idle |-> idle_status.is_idle,
                                      recent_file_changes |-> f[1],
                                      error_count |-> hub.error_count,
                                      snapshot_count |-> hub.snapshot_count],
                                     FALSE, os, hub.error_count)),
                             !.at[th] = "load"]
    /\ UNCHANGED notHub

\* self._snapshot_count += 1, first half: the attribute is loaded
HubLoad(th) ==
    /\ hub.at[th] = "load"
    /\ hub' = [hub EXCEPT !.loaded[th] = hub.snapshot_count,
                          !.at[th] = "store"]
    /\ UNCHANGED notHub

\* self._snapshot_count += 1, second half: the sum is stored; the call
\* returns the snapshot
HubStore(th) ==
    /\ hub.at[th] = "store"
    /\ hub' = [hub EXCEPT !.snapshot_count = hub.loaded[th] + 1,
                          !.at[th] = "call",
                          !.built[th] = None,
                          !.returned = Append(@, hub.built[th][1])]
    /\ UNCHANGED notHub

HubNext ==
    \E th \in HubThreads : HubBuild(th) \/ HubLoad(th) \/ HubStore(th)

SpecHub == Init /\ [][HubNext]_vars

\* C30: every snapshot get_context_snapshot returns carries a
\* snapshot_count greater than that of every snapshot returned before it,
\* on the error path and with two calling threads as well
C30_SnapshotCountIncreases ==
    \A i, j \in DOMAIN hub.returned :
        i < j => hub.returned[i].count < hub.returned[j].count

----------------------------------------------------------------------------
(* Properties of snapshot assembly with a failing monitor *)

\* the monitors that failed while the snapshot of log line r was assembled
FailedAdapters(r) ==
    {m \in {"window", "idle", "files"} :
        r.os[m] = (IF m = "window" THEN "error" ELSE None)}

\* C31: when one monitor fails during assembly, get_context_snapshot
\* returns a snapshot that keeps what the other monitors gave and whose
\* error_count is one higher than _error_count was before the call
C31_OneAdapterFails ==
    \A k \in DOMAIN hub.returned :
        LET r == hub.returned[k]
        IN  Cardinality(FailedAdapters(r)) = 1
              => /\ r.snapshot.error_count = r.before + 1
                 /\ r.os.window # "error"
                       => r.snapshot.active_app = r.os.window
                 /\ r.os.idle # None
                       => r.snapshot.idle_time = r.os.idle[1]
                 /\ r.os.files # None
                       => r.snapshot.recent_file_changes = r.os.files[1]

----------------------------------------------------------------------------
(* IPCServer.broadcast *)

\* number of broadcasts the model lets the producer make
MaxBroadcasts == 3

notIpc == <<clock, gateVars, fsmVars, pc, brain, pool, proposed,
            ipc_running, ui_sent, frames, snapshot, emitted, called, hub,
            decayed, triggered>>

\* asyncio.gather(*sends, return_exceptions=...): with return_exceptions
\* the exceptions of the sends are results; without, the first one is
\* raised to the awaiting caller
gather(failed, return_exceptions) ==
    [raised |-> ~ return_exceptions /\ failed # {}]

\* broadcast that awaits the sends without return_exceptions
broadcast_propagating(i, message, failed) ==
    IF i.clients = {}
    THEN i
    ELSE [i EXCEPT
            !.inbox = [c \in IpcClients |->
                          IF c \in i.clients \ failed
                          THEN Append(i.inbox[c], message)
                          ELSE i.inbox[c]],
            !.log = Append(@, [message |-> message, clients |-> i.clients,
                               failed |-> failed]),
            !.raised = gather(failed, FALSE).raised]

\* IPCServer.broadcast(msg_type, data): nothing without clients; else one
\* client.send(message) per registered client, awaited together; the
\* sends of the clients in `failed` raise
broadcast(i, message, failed) ==
    IF i.clients = {}
    THEN i
    ELSE [i EXCEPT
            !.inbox = [c \in IpcClients |->
                          IF c \in i.clients \ failed
                          THEN Append(i.inbox[c], message)
                          ELSE i.inbox[c]],
            !.log = Append(@, [message |-> message, clients |-> i.clients,
                               failed |-> failed]),
            !.raised = gather(failed, TRUE).raised]

\* IPCServer._handler, entry: the websocket joins the clients
IpcConnect ==
    /\ \E c \in IpcClients \ ipc.clients :
          ipc' = [ipc EXCEPT !.clients = @ \cup {c}]
    /\ UNCHANGED notIpc

\* IPCServer._handler, finally: the websocket leaves the clients
IpcDisconnect ==
    /\ \E c \in ipc.clients :
          ipc' = [ipc EXCEPT !.clients = @ \ {c}]
    /\ UNCHANGED notIpc

\* await broadcast("ui_update", ...): the n-th message; any of the
\* clients' sends may raise
IpcBroadcast ==
    /\ Len(ipc.log) < MaxBroadcasts
    /\ ~ ipc.raised
    /\ \E failed \in SUBSET ipc.clients :
          ipc' = broadcast(ipc, Len(ipc.log) + 1, failed)
    /\ UNCHANGED notIpc

IpcNext ==
    \/ IpcConnect
    \/ IpcDisconnect
    \/ IpcBroadcast

SpecIpc == Init /\ [][IpcNext]_vars

\* C32: broadcast delivers the message to every client registered at the
\* time of the call whose send does not fail, whatever the other clients'
\* sends do, and raises nothing to its caller
C32_BroadcastIsolating ==
    /\ ~ ipc.raised
    /\ \A k \in DOMAIN ipc.log :
          \A c \in ipc.log[k].clients \ ipc.log[k].failed :
              \E n \in DOMAIN ipc.inbox[c] :
                  ipc.inbox[c][n] = ipc.log[k].message

\* a broadcast to two clients, the send to one of which failed
C32_Witness ==
    \E k \in DOMAIN ipc.log :
        /\ ipc.log[k].failed # {}
        /\ ipc.log[k].clients \ ipc.log[k].failed # {}

----------------------------------------------------------------------------
(* BehaviorFSM over a long run *)

\* number of transitions the model lets the FSM make
MaxTransitions == 101

\* the events of a quiet session: the context changes, nothing is proposed
\* and the observation times out
QuietEvents == {"context_changed", "timeout"}

\* trigger_event(event), again and again
QuietEvent ==
    /\ Len(fsm.state_history) < MaxTransitions
    /\ \E e \in QuietEvents :
          LET r == trigger_event(fsm, e, NoData, clock)
          IN  /\ fsm' = r.fsm
              /\ ret' = r.ret
    /\ UNCHANGED <<clock, gateVars, orchVars>>

SpecHistory == Init /\ [][QuietEvent]_vars

\* C33: the FSM retains at most the last 100 transitions
C33_HistoryBounded == Len(fsm.state_history) <= 100

----------------------------------------------------------------------------
(* The previous context of the gate in the loop of main_v2.py *)

\* the snapshot the previous iteration gave to evaluate, if it called it
PreviousEvaluated == IF "gate" \in called THEN snapshot ELSE None

\* whether context differs from the previously evaluated snapshot in
\* active_app or is_idle
ChangedSince(prev, context) ==
    /\ prev # None
    /\ \/ prev[1].active_app # context.active_app
       \/ prev[1].is_idle # context.is_idle

\* the confidence left of intent after dismiss_count dismissals of its
\* kind and, if changed, the context-change decay; no time decay
LeftOf(intent, changed) ==
    Max(0, Min(SCALE,
               intent.confidence
               - DISMISS_DECAY * DictGet(dismiss_count, intent.type, 0)
               - (IF changed THEN CONTEXT_DECAY ELSE 0)))

\* C34: every evaluate stores its snapshot as the previous context,
\* approved or rejected; so the context-change decay is applied to an
\* evaluation exactly when its snapshot differs in active_app or is_idle
\* from the snapshot of the evaluation before it, whatever that one decided
C34_EvaluateStoresContext ==
    [][(pc = "loop" /\ pc' = "sleep" /\ "gate" \in called')
          => /\ last_context' = snapshot'
             /\ (result'.reason = "Confidence too low")
                    <=> (LeftOf(proposed'[1],
                                ChangedSince(PreviousEvaluated, snapshot'[1]))
                            < CONFIDENCE_THRESHOLD)]_vars

\* an evaluation rejected for low confidence only because of the
\* context-change decay: the proposer's confidence passes the threshold and
\* nothing was dismissed
C34_Witness ==
    /\ "gate" \in called
    /\ result.reason = "Confidence too low"
    /\ proposed[1].confidence >= CONFIDENCE_THRESHOLD
    /\ dismiss_count = EmptyDict
    /\ last_context = snapshot

----------------------------------------------------------------------------
(* ConfidenceDecay, called on its own *)

\* largest dismiss count of a kind
MaxDecayDismiss == 3

\* confidences 0.5, 0.7 and 1.1
DecayIntents == [type : EvalKinds, confidence : {750, 1050, 1650}]

DecayContexts == {[active_app |-> "Code.exe", is_idle |-> FALSE],
                  [active_app |-> "Chrome.exe", is_idle |-> FALSE],
                  [active_app |-> "Code.exe", is_idle |-> TRUE]}

\* time_since_generation: negative, the default 0, around the minute,
\* inside and beyond the five minutes
DecayAges == {-5, 0, 60, 61, 150, 400}

\* apply_decay(intent, context, time_since_generation): returns the
\* decayed confidence and stores the context
ApplyDecay ==
    /\ \E intent \in DecayIntents, context \in DecayContexts,
          age \in DecayAges :
          /\ decayed' = Some([intent |-> intent, context |-> context,
                              age |-> age, prev |-> last_context,
                              dismissed |-> dismiss_count,
                              value |-> apply_decay(intent, context, age)])
          /\ last_context' = Some(context)
    /\ UNCHANGED <<clock, last_intent_time, last_popup_time,
                   last_dismiss_time, popup_history, intent_history,
                   dismiss_count, result, approvals, dismissals, resets,
                   fsmVars, pc, brain, pool, proposed, ipc_running, ui_sent,
                   frames, snapshot, emitted, called, hub, ipc, triggered>>

\* record_dismiss(intent_type)
RecordDismiss ==
    /\ \E k \in EvalKinds :
          /\ DictGet(dismiss_count, k, 0) < MaxDecayDismiss
          /\ handle_intent_dismissed(k)
    /\ UNCHANGED <<fsmVars, orchVars>>

DecayNext ==
    \/ ApplyDecay
    \/ RecordDismiss

SpecDecay == Init /\ [][DecayNext]_vars

\* the decayed confidence as the formula has it, in units of 1/1500:
\* 0.10 is 150, 0.15 is 225, 0.20 is 300 and age/300 * 0.20 is the age
FormulaDecay(d) ==
    LET age == IF d.age < 0 THEN 0 ELSE d.age
        dismisses == 150 * DictGet(d.dismissed, d.intent.type, 0)
        change == IF /\ d.prev # None
                     /\ \/ d.prev[1].active_app # d.context.active_app
                        \/ d.prev[1].is_idle # d.context.is_idle
                  THEN 225 ELSE 0
        time == IF age > 60 THEN Min(300, age) ELSE 0
    IN  Max(0, Min(1500, d.intent.confidence - dismisses - change - time))

\* C35: the decayed confidence is the confidence less 0.10 per dismissal
\* of the intent's kind, less 0.15 if the stored previous snapshot exists
\* and differs in active_app or is_idle, less min(0.20, age/300 * 0.20) if
\* age > 60, clamped to [0, 1]; a negative age counts as 0
C35_DecayFormula ==
    decayed # None => decayed[1].value = FormulaDecay(decayed[1])

\* all three decays at once, with dismissals of the other kind as well,
\* and a result inside (0, 1)
C35_Witness ==
    /\ decayed # None
    /\ DictGet(decayed[1].dismissed, decayed[1].intent.type, 0) = 1
    /\ \E k \in EvalKinds :
          k # decayed[1].intent.type /\ DictGet(decayed[1].dismissed, k, 0) > 0
    /\ decayed[1].prev # None
    /\ decayed[1].prev[1].is_idle # decayed[1].context.is_idle
    /\ decayed[1].age = 150
    /\ decayed[1].value = 1650 - 150 - 225 - 150

----------------------------------------------------------------------------
(* The cooldown tiers together *)

\* the deadlines of the tiers that are active for kind k now, by the
\* ledgers of approvals and dismissals: <<tier, deadline>>
ActiveTiers(k) ==
    {<<"User dismissed recently", dismissals[i] + dismiss_cooldown>> :
        i \in {i \in DOMAIN dismissals :
                  clock - dismissals[i] < dismiss_cooldown}}
    \cup {<<"Global cooldown active", approvals[i].t + global_cooldown>> :
        i \in {i \in DOMAIN approvals :
                  clock - approvals[i].t < global_cooldown}}
    \cup {<<"Intent cooldown active", approvals[i].t + per_intent_cooldown>> :
        i \in {i \in DOMAIN approvals :
                  /\ approvals[i].type = k
                  /\ clock - approvals[i].t < per_intent_cooldown}}

\* the first of the reasons in the order dismiss, global, per-kind
FirstReason(tiers) ==
    IF \E t \in tiers : t[1] = "User dismissed recently"
    THEN "User dismissed recently"
    ELSE IF \E t \in tiers : t[1] = "Global cooldown active"
    THEN "Global cooldown active"
    ELSE "Intent cooldown active"

\* C36: in every state and for every kind, can_show_intent refuses exactly
\* when a tier is active and names the first active tier in the order
\* dismiss, global, per-kind; the remaining wait is not negative;
\* get_next_allowed_time is then the largest deadline of the active
\* tiers, which lies in the future, and is None when no tier is active
C36_TierPriority ==
    \A k \in EvalKinds :
        LET tiers == ActiveTiers(k)
            can == can_show_intent(k, clock)
            next == get_next_allowed_time(k, clock, last_intent_time,
                                          last_popup_time, last_dismiss_time)
        IN  IF tiers = {}
            THEN can.ok /\ next = Null
            ELSE /\ ~ can.ok
                 /\ can.reason = FirstReason(tiers)
                 /\ can.wait >= 0
                 /\ next > clock
                 /\ \E t \in tiers : t[2] = next
                 /\ \A t \in tiers : t[2] <= next

\* the global and the per-kind tier are both active: the reason is the
\* global tier, the time returned the later deadline of the per-kind tier
C36_Witness ==
    /\ result.reason = "Cooldown: Global cooldown active"
    /\ ActiveTiers(result.intent[1].type) =
           {<<"Global cooldown active", clock + 1>>,
            <<"Intent cooldown active", clock + 2>>}
    /\ result.next_allowed_time = clock + 2

----------------------------------------------------------------------------
(* BehaviorFSM.trigger_event and check_timeout, called on their own *)

notFired == <<clock, gateVars, pc, brain, pool, proposed, ipc_running,
              ui_sent, frames, snapshot, emitted, called, hub, ipc, decayed>>

\* the call leaves the FSM and the returned value as r says and invoked
\* the callbacks r.calls for the event
Fire(event, r) ==
    /\ Len(r.fsm.state_history) <= MaxHistory
    /\ fsm' = r.fsm
    /\ ret' = r.ret
    /\ triggered' = Some([event |-> event, calls |-> r.calls])
    /\ UNCHANGED notFired

\* trigger_event(event, data)
FireEvent ==
    \E e \in Event, d \in EventData : Fire(e, trigger_event(fsm, e, d, clock))

\* check_timeout()
FireTimeout == Fire("timeout", check_timeout(fsm, clock))

\* time passes between two calls
FireAdvance ==
    /\ \E t \in FsmTimes : t > clock /\ clock' = t
    /\ UNCHANGED <<gateVars, fsmVars, orchVars>>

EventsNext ==
    \/ FireAdvance
    \/ FireEvent
    \/ FireTimeout

SpecEvents == Init /\ [][EventsNext]_vars

\* C37: a call with an event that has no table entry in the current state
\* returns False, leaves the state, its entry time, the state data and
\* the history as they were and invokes no callback
C37_InvalidEventIsNoOp ==
    [][(clock' = clock /\ triggered' # None
        /\ triggered'[1].event \notin DOMAIN TRANSITIONS[fsm.current_state])
          => /\ ret' = FALSE
             /\ fsm'.current_state = fsm.current_state
             /\ fsm'.state_entered_at = fsm.state_entered_at
             /\ fsm'.state_data = fsm.state_data
             /\ fsm'.state_history = fsm.state_history
             /\ triggered'[1].calls = <<>>]_vars

\* a dismissal ignored while observing, after the time of the observing
\* state had begun
C37_Witness ==
    /\ triggered # None
    /\ triggered[1].event = "user_dismiss"
    /\ triggered[1].calls = <<>>
    /\ ret = FALSE
    /\ fsm.current_state = "observing"
    /\ clock > fsm.state_entered_at

----------------------------------------------------------------------------
(* Rejected decisions and the FSM in the loop of main_v2.py *)

\* C38: an iteration whose decision is a rejection leaves a suggestion
\* shown in SUGGESTING, or an action in EXECUTING, as it was
C38_RejectionKeepsState ==
    [][(/\ pc = "loop" /\ pc' = "sleep"
        /\ "gate" \in called'
        /\ ~ result'.approved
        /\ fsm.current_state \in {"suggesting", "executing"})
          => fsm' = fsm]_vars

----------------------------------------------------------------------------
(* The gate after repeated dismissals of suggest_help *)

\* largest dismiss count of suggest_help
MaxHelpDismiss == 4

\* suggest_help with confidence 0.90, the most the fallback proposer
\* gives, and with confidence 1.0
HelpIntents == [type : {"suggest_help"}, confidence : {1350, 1500}]

\* evaluate(intent, context) of a suggest_help intent
EvaluateHelp ==
    /\ \E intent \in HelpIntents, context \in Contexts :
          evaluate(intent, context, 0)
    /\ UNCHANGED <<fsmVars, orchVars>>

\* handle_intent_dismissed(IntentType.SUGGEST_HELP)
DismissHelp ==
    /\ DictGet(dismiss_count, "suggest_help", 0) < MaxHelpDismiss
    /\ handle_intent_dismissed("suggest_help")
    /\ UNCHANGED <<fsmVars, orchVars>>

HelpNext ==
    \/ AdvanceGate
    \/ EvaluateHelp
    \/ DismissHelp
    \/ HandleUserDismiss
    \/ Reset

SpecHelp == Init /\ [][HelpNext]_vars

\* C39: no call but reset lowers a dismiss count, and an evaluate of a
\* suggest_help intent with confidence at most 0.90 made while
\* dismiss_count[suggest_help] >= 3 is rejected as confidence too low,
\* at any time and in any cooldown state
C39_DismissDecayPermanent ==
    [][/\ resets' = resets
          => \A k \in IntentType :
                DictGet(dismiss_count', k, 0) >= DictGet(dismiss_count, k, 0)
       /\ (/\ result'.intent # None
           /\ result'.intent[1].confidence <= 1350
           /\ DictGet(dismiss_count', "suggest_help", 0) >= 3)
             => result'.reason = "Confidence too low"]_vars

\* an hour after the start, with three dismissals and no cooldown
\* running, suggest_help 0.90 is rejected for low confidence
C39_Witness ==
    /\ clock > HOUR
    /\ DictGet(dismiss_count, "suggest_help", 0) = 3
    /\ result.intent # None
    /\ result.intent[1].confidence = 1350
    /\ result.reason = "Confidence too low"
    /\ can_show_intent("suggest_help", clock).ok

----------------------------------------------------------------------------
(* The fallback proposer and a snapshot without application *)

\* C40: for a snapshot whose active_app is None the fallback proposer
\* returns an Intent of kind none, it does not raise
C40_NoAppGivesNone ==
    (/\ snapshot # None
     /\ snapshot[1].active_app = NoApp
     /\ called = {"proposer"})
        => /\ proposed # None
           /\ proposed[1].type = "none"

====
